---- MODULE Spec2Model ----
(***************************************************************************)
(* A model of the core of Archiveopteryx: the message Injector and the     *)
(* database it talks to (src/message/injector.cpp), the IMAP line/literal  *)
(* parser and command scheduler (src/imap/imap.cpp) and the database       *)
(* handle pool (src/db/database.cpp).                                      *)
(***************************************************************************)
EXTENDS Integers, Sequences, FiniteSets, TLC

(***************************************************************************)
(* Bounds of the model.                                                    *)
(***************************************************************************)
NumMailboxes == 2      \* mailboxes 1..NumMailboxes exist in the database
MaxParts == 2          \* bodyparts per message
MaxExecuteCalls == 2   \* direct calls of Injector::execute() by the owner

Injectors == {"A", "B"}
Mailboxes == 1..NumMailboxes
Hashes == {1, 2}       \* md5 of the stored bytes; 0 marks a part that is not stored
\* A part of a message is given by a number: a hash for a text/plain part
\* with these bytes, 0 for a multipart/mixed part, -1 for a message/rfc822
\* part.
NoInjector == "-"

VARIABLES
    inj,        \* Injectors -> the InjectorData, its fetchers and its Transaction
    db,         \* the PostgreSQL server: committed rows, row locks, open transactions
    sessions,   \* Mailboxes -> the sessions open on the mailbox in this process
    live,       \* the injectors that exist
    mailbox,    \* Mailboxes -> the Mailbox object of this process and its sessions
    imap,       \* one IMAP connection: its input, its literal state, its commands
    pool,       \* the database handle pool and the queue of submitted queries
    smtp        \* one SMTP or LMTP connection

injVars == <<inj, db, sessions, live, mailbox>>
notInjector == <<imap, pool, smtp>>
vars == <<inj, db, sessions, live, mailbox, imap, pool, smtp>>

(***************************************************************************)
(* Small helpers.                                                          *)
(***************************************************************************)
Min(S) == CHOOSE x \in S : \A y \in S : x <= y

RECURSIVE SortedSeq(_)
SortedSeq(S) == IF S = {} THEN <<>> ELSE <<Min(S)>> \o SortedSeq(S \ {Min(S)})

SeqsUpTo(S, n) == UNION {[1..k -> S] : k \in 1..n}

Upd(f, k, v) == [x \in (DOMAIN f) \cup {k} |-> IF x = k THEN v ELSE f[x]]

\* F applied to the value of x: x is evaluated once, whatever F does with it.
With(x, F(_)) == CHOOSE r \in {F(v) : v \in {x}} : TRUE

(***************************************************************************)
(* Injector::State, in declaration order (execute() compares states).      *)
(***************************************************************************)
States == <<"Inactive", "InsertingBodyparts", "SelectingUids",
            "InsertingMessages", "LinkingFields", "LinkingFlags",
            "LinkingAnnotations", "LinkingAddresses", "AwaitingCompletion",
            "Done">>

Rank(st) == CHOOSE r \in 1..Len(States) : States[r] = st

(***************************************************************************)
(* Queries.  k is the statement, a and b its bound parameters, rows the    *)
(* lines of a COPY.                                                        *)
(***************************************************************************)
Q(k, a, b) == [k |-> k, a |-> a, b |-> b, rows |-> {}]

QRows(k, rows) == [k |-> k, a |-> 0, b |-> 0, rows |-> rows]

(***************************************************************************)
(* Transaction: enqueue() appends, execute() releases everything enqueued  *)
(* so far to the handle, commit() and rollback() enqueue the final         *)
(* statement and release.                                                  *)
(***************************************************************************)
NewTransaction == [made |-> TRUE, queue |-> <<>>, nrel |-> 0,
                   failed |-> FALSE, done |-> FALSE, committed |-> FALSE]

NoTransaction == [made |-> FALSE, queue |-> <<>>, nrel |-> 0,
                  failed |-> FALSE, done |-> FALSE, committed |-> FALSE]

Enqueue(s, q) == [s EXCEPT !.tx.queue = Append(@, q)]

TxExecute(s0) == With(s0, LAMBDA s : [s EXCEPT !.tx.nrel = Len(s.tx.queue)])

TxCommit(s) == TxExecute(Enqueue(s, Q("commit", 0, 0)))

TxRollback(s) == TxExecute(Enqueue(s, Q("rollback", 0, 0)))

(***************************************************************************)
(* struct Uid and struct Bid.                                              *)
(***************************************************************************)
Uid(m) == [mailbox |-> m, uid |-> 0, ms |-> 0, recentIn |-> 0]

\* Bodypart::contentType(): <<type, subtype>>.
PartType(p) ==
    IF p \in Hashes THEN <<"text", "plain">>
    ELSE IF p = 0 THEN <<"multipart", "mixed">>
    ELSE <<"message", "rfc822">>

Bid(p) ==
    [ct |-> PartType(p), hash |-> IF p \in Hashes THEN p ELSE 0, bid |-> 0,
     insert |-> "none", select |-> "none", row |-> 0]

\* Injector::Injector() and Injector::setMailboxes(): one Bid for each
\* bodypart of the message, one Uid for each mailbox, in the list's order.
NewInjector(valid, mboxes, parts, flags, anns, maxCalls) ==
    [valid |-> valid,
     state |-> "Inactive",
     failed |-> FALSE,
     owner |-> TRUE,
     ownerCalls |-> 0,
     calls |-> 0,
     maxCalls |-> maxCalls,
     mailboxes |-> [k \in 1..Len(mboxes) |-> Uid(mboxes[k])],
     bodyparts |-> [k \in 1..Len(parts) |-> Bid(parts[k])],
     bf |-> [made |-> FALSE, li |-> 1, state |-> 0, savepoint |-> 0,
             done |-> FALSE, failed |-> FALSE],
     uf |-> [made |-> FALSE, queries |-> <<>>, li |-> 1, failed |-> FALSE],
     tx |-> NoTransaction,
     fieldLookup |-> "none",
     addressLookup |-> "none",
     flags |-> flags,
     annotations |-> anns,
     announced |-> FALSE]

(***************************************************************************)
(* Injector::finish(): notifies the owner and forgets it.                  *)
(***************************************************************************)
\* finish() without "d->owner = 0".
FinishKeepsOwner(s0) ==
    With(s0, LAMBDA s :
        IF ~s.owner THEN s
        ELSE [s EXCEPT !.ownerCalls = @ + 1])

Finish(s0) ==
    With(s0, LAMBDA s :
        IF ~s.owner THEN s
        ELSE [s EXCEPT !.ownerCalls = @ + 1, !.owner = FALSE])

(***************************************************************************)
(* Injector::setupBodyparts(): an INSERT and a SELECT for every storable   *)
(* bodypart.                                                               *)
(***************************************************************************)
\* "bool storeText": ct is <<type, subtype>>, <<>> without Content-Type.
StoreText(ct) == IF ct # <<>> THEN ct[1] = "text" ELSE TRUE

\* "bool storeData"
StoreData(ct) ==
    IF ct = <<>> THEN FALSE
    ELSE IF ct[1] = "text" THEN ct[2] = "html"
    ELSE /\ ~(ct[1] = "multipart" /\ ct[2] # "signed")
         /\ ~(ct[1] = "message" /\ ct[2] = "rfc822")

\* setupBodyparts() that makes no query.
SetupNoBodyparts(s) == s

SetupBodyparts(s) ==
    [s EXCEPT !.bodyparts =
        [k \in DOMAIN s.bodyparts |->
            IF StoreText(s.bodyparts[k].ct) \/ StoreData(s.bodyparts[k].ct)
            THEN [s.bodyparts[k] EXCEPT !.insert = "new", !.select = "new"]
            ELSE s.bodyparts[k]]]

(***************************************************************************)
(* Injector::selectUids(): one lock query per mailbox, in list order.      *)
(***************************************************************************)
LockQuery(m) == Q("lockUidnext", m, 0)

\* selectUids() walking d->mailboxes from its end.
SelectUidsDescending(s) ==
    LET n == Len(s.mailboxes)
        ms == [k \in DOMAIN s.mailboxes |-> s.mailboxes[n + 1 - k].mailbox]
        qs == [k \in DOMAIN ms |-> LockQuery(ms[k])]
    IN [s EXCEPT !.uf = [made |-> TRUE, queries |-> ms, li |-> 1, failed |-> FALSE],
                 !.tx.queue = @ \o qs]

SelectUids(s) ==
    LET ms == [k \in DOMAIN s.mailboxes |-> s.mailboxes[k].mailbox]
        qs == [k \in DOMAIN ms |-> LockQuery(ms[k])]
    IN [s EXCEPT !.uf = [made |-> TRUE, queries |-> ms, li |-> 1, failed |-> FALSE],
                 !.tx.queue = @ \o qs]

\* buildFieldLinks() and resolveAddressLinks() start one cache lookup each,
\* run inside the transaction.
BuildFieldLinks(s) ==
    Enqueue([s EXCEPT !.fieldLookup = "pending"], Q("fieldLookup", 0, 0))

ResolveAddressLinks(s) ==
    Enqueue([s EXCEPT !.addressLookup = "pending"], Q("addressLookup", 0, 0))

(***************************************************************************)
(* Injector::insertMessages(): one messages and one modsequences line per  *)
(* mailbox.                                                                *)
(***************************************************************************)
InsertMessages(s) ==
    Enqueue(s, QRows("copyMessages",
        {<<s.mailboxes[k].mailbox, s.mailboxes[k].uid, s.mailboxes[k].ms>> :
            k \in DOMAIN s.mailboxes}))

\* linkBodyparts(): a part_numbers line per mailbox and bodypart.  The line
\* of the message itself (part "", no bodypart) is left out, and the lines
\* "n" and "n.rfc822" of a message/rfc822 part, which carry the same
\* bodypart, are one line; insertPartNumber() writes NULL for the id 0.
LinkBodyparts(s) ==
    Enqueue(s, QRows("copyPartNumbers",
        {<<s.mailboxes[k].mailbox, s.mailboxes[k].uid, p, s.bodyparts[p].bid>> :
            k \in DOMAIN s.mailboxes, p \in DOMAIN s.bodyparts}))

LinkHeaderFields(s) == Enqueue(s, Q("copyHeaderFields", 0, 0))

LinkAddresses(s) == Enqueue(s, Q("copyAddressFields", 0, 0))

\* linkFlags(), linkAnnotations(): one INSERT per flag (annotation) and
\* mailbox; the message carries at most one flag and one annotation here.
LinkFlags(s) ==
    IF s.flags = "none" THEN s
    ELSE [s EXCEPT !.tx.queue = @ \o
            [k \in DOMAIN s.mailboxes |-> Q("insertFlag", s.mailboxes[k].mailbox, 0)]]

LinkAnnotations(s) ==
    IF s.annotations = "none" THEN s
    ELSE [s EXCEPT !.tx.queue = @ \o
            [k \in DOMAIN s.mailboxes |-> Q("insertAnnotation", s.mailboxes[k].mailbox, 0)]]

(***************************************************************************)
(* UidFetcher::process(): stores the row of the lock query in the Uid the  *)
(* iterator points at and enqueues the UPDATE for that Uid's mailbox.      *)
(***************************************************************************)
\* process() without the "update mailboxes set uidnext=uidnext+1" query.
UidFetcherProcessNoUpdate(s0, row) ==
    With(s0, LAMBDA s :
        [s EXCEPT !.mailboxes[s.uf.li].uid = row.uidnext,
                  !.mailboxes[s.uf.li].ms = row.nextmodseq,
                  !.uf.li = @ + 1])

UidFetcherProcess(s0, row) ==
    With(s0, LAMBDA s :
    LET li == s.uf.li
        m == s.mailboxes[li].mailbox
        recent == row.uidnext = row.first_recent /\ sessions[m] # {}
        s1 == [s EXCEPT !.mailboxes[li].uid = row.uidnext,
                        !.mailboxes[li].ms = row.nextmodseq,
                        !.mailboxes[li].recentIn =
                            IF recent THEN Min(sessions[m]) ELSE @]
        u == IF recent THEN Q("incrUidnextWithRecent", m, 0)
             ELSE Q("incrUidnext", m, 0)
    IN [Enqueue(s1, u) EXCEPT !.uf.li = li + 1])

(***************************************************************************)
(* Injector::execute(), one block per "if ( d->state == ... )".  Each      *)
(* block maps the injector to [s, ret]; ret says that execute() has        *)
(* returned.                                                               *)
(***************************************************************************)
Go(s) == [s |-> s, ret |-> FALSE]

Ret(s) == [s |-> s, ret |-> TRUE]

ExecInsertingBodyparts(s) ==
    IF s.state # "InsertingBodyparts" THEN Go(s)
    ELSE IF ~s.bf.done THEN Ret(s)
    ELSE IF s.bf.failed
    THEN Go([TxRollback([s EXCEPT !.failed = TRUE])
                EXCEPT !.state = "AwaitingCompletion"])
    ELSE Go([TxExecute(ResolveAddressLinks(BuildFieldLinks(SelectUids(s))))
                EXCEPT !.state = "SelectingUids"])

\* The SelectingUids block without "if ( !d->uidFetcher->done() ) return;".
ExecSelectingUidsAtOnce(s) ==
    IF ~(s.state = "SelectingUids" /\ ~s.tx.failed) THEN Go(s)
    ELSE Go([TxExecute(InsertMessages(s)) EXCEPT !.state = "InsertingMessages"])

ExecSelectingUids(s) ==
    IF ~(s.state = "SelectingUids" /\ ~s.tx.failed) THEN Go(s)
    ELSE IF s.uf.queries # <<>> THEN Ret(s)
    ELSE Go([TxExecute(InsertMessages(s)) EXCEPT !.state = "InsertingMessages"])

ExecInsertingMessages(s) ==
    IF ~(s.state = "InsertingMessages" /\ ~s.tx.failed) THEN Go(s)
    ELSE IF s.fieldLookup # "done" THEN Ret(s)
    ELSE Go([TxExecute(LinkHeaderFields(LinkBodyparts(s)))
                EXCEPT !.state = "LinkingFields"])

ExecLinkingFields(s) ==
    IF ~(s.state = "LinkingFields" /\ ~s.tx.failed) THEN Go(s)
    ELSE IF s.addressLookup # "done" THEN Ret(s)
    ELSE Go([LinkAddresses(s) EXCEPT !.state = "LinkingFlags"])

ExecLinkingFlags(s) ==
    IF s.state # "LinkingFlags" THEN Go(s)
    ELSE IF s.flags = "unknown" THEN Ret(s)
    ELSE Go([LinkFlags(s) EXCEPT !.state = "LinkingAnnotations"])

ExecLinkingAnnotations(s) ==
    IF s.state # "LinkingAnnotations" THEN Go(s)
    ELSE IF s.annotations = "unknown" THEN Ret(s)
    ELSE Go([LinkAnnotations(s) EXCEPT !.state = "LinkingAddresses"])

ExecLinkingAddresses(s) ==
    IF ~(s.state = "LinkingAddresses" \/ s.tx.failed) THEN Go(s)
    ELSE LET s1 == IF Rank(s.state) < Rank("AwaitingCompletion")
                   THEN TxCommit(s) ELSE s
         IN Go([s1 EXCEPT !.state = "AwaitingCompletion"])

ExecAwaitingCompletion(s) ==
    IF s.state # "AwaitingCompletion" THEN Go(s)
    ELSE IF ~s.tx.done THEN Ret(s)
    ELSE Go(Finish([s EXCEPT !.failed = IF ~s.failed THEN s.tx.failed ELSE @,
                             !.state = "Done"]))

\* The next block of execute(), unless execute() has returned.
Block(r0, F(_)) == With(r0, LAMBDA r : IF r.ret THEN r ELSE F(r.s))

\* execute() from "if ( d->state == InsertingBodyparts )" on: all of
\* execute() once the injection has started.
ExecuteStarted(s0) ==
    With(s0, LAMBDA s1 :
        Block(Block(Block(Block(Block(Block(Block(
            ExecInsertingBodyparts(s1),
            ExecSelectingUids),
            ExecInsertingMessages),
            ExecLinkingFields),
            ExecLinkingFlags),
            ExecLinkingAnnotations),
            ExecLinkingAddresses),
            ExecAwaitingCompletion).s)

(***************************************************************************)
(* BidFetcher::execute().  Its owner is the injector, which has left       *)
(* Inactive before the fetcher exists.  The loop runs at most twice: case  *)
(* 2 goes on to the next bodypart, case 0 and case 1 return.               *)
(***************************************************************************)
NextInsert(s, li) ==
    LET later == {j \in li..Len(s.bodyparts) : s.bodyparts[j].insert # "none"}
    IN IF later = {} THEN Len(s.bodyparts) + 1 ELSE Min(later)

\* "case 0": savepoint and INSERT for the bodypart at li
BidFetcherCase0(t0, li) ==
    With(t0, LAMBDA t :
    TxExecute(Enqueue(Enqueue(
        [t EXCEPT !.bf.state = 1, !.bodyparts[li].insert = "sent"],
        Q("savepoint", t.bf.savepoint, 0)),
        Q("intoBodyparts", li, t.bodyparts[li].hash))))

\* "case 1": after the INSERT, ROLLBACK TO the savepoint if it failed, and
\* the SELECT
BidFetcherCase1(t0, li) ==
    With(t0, LAMBDA t :
    LET b == t.bodyparts[li] IN
    IF b.insert \notin {"ok", "failed"} THEN t
    ELSE LET t1 == IF b.insert = "failed"
                   THEN Enqueue(t, Q("rollbackTo", t.bf.savepoint, 0))
                   ELSE t
         IN TxExecute(Enqueue(
                [t1 EXCEPT !.bf.state = 2, !.bodyparts[li].select = "sent"],
                Q("idBodypart", li, b.hash))))

\* One turn of "while ( !done && *li )" that starts in state 0.
BidFetcherTurn0(s0) ==
    With(s0, LAMBDA s :
    IF s.bf.li > Len(s.bodyparts)
    THEN ExecuteStarted([s EXCEPT !.bf.done = TRUE])
    ELSE LET li == NextInsert(s, s.bf.li)
         IN IF li > Len(s.bodyparts)
            THEN ExecuteStarted([s EXCEPT !.bf.li = li, !.bf.done = TRUE])
            ELSE BidFetcherCase0([s EXCEPT !.bf.li = li], li))

BidFetcherExecute(s0) ==
    With(s0, LAMBDA s :
    IF s.bf.done \/ s.bf.li > Len(s.bodyparts)
    THEN ExecuteStarted([s EXCEPT !.bf.done = TRUE])
    ELSE
    LET li == NextInsert(s, s.bf.li)
        t == [s EXCEPT !.bf.li = li]
    IN IF li > Len(s.bodyparts)
       THEN ExecuteStarted([t EXCEPT !.bf.done = TRUE])
       ELSE
       LET b == s.bodyparts[li] IN
       CASE s.bf.state = 0 -> BidFetcherCase0(t, li)
         [] s.bf.state = 1 -> BidFetcherCase1(t, li)
         [] OTHER ->
              IF b.select \notin {"row", "norow", "failed"} THEN t
              ELSE IF b.select # "row"
              THEN ExecuteStarted([t EXCEPT !.bf.done = TRUE, !.bf.failed = TRUE])
              ELSE BidFetcherTurn0(
                      [t EXCEPT !.bodyparts[li].bid = b.row,
                                !.bf.li = li + 1,
                                !.bf.state = 0,
                                !.bf.savepoint = @ + 1]))

(***************************************************************************)
(* Injector::execute().                                                    *)
(***************************************************************************)
\* execute() without the test of the message's validity.
ExecuteAnyMessage(s0) ==
    With(s0, LAMBDA s :
    IF s.state = "Inactive"
    THEN ExecuteStarted(BidFetcherExecute(SetupBodyparts(
             [s EXCEPT !.tx = NewTransaction,
                       !.state = "InsertingBodyparts",
                       !.bf.made = TRUE])))
    ELSE ExecuteStarted(s))

InjectorExecute(s0) ==
    With(s0, LAMBDA s :
    IF s.state = "Inactive" /\ ~s.valid
    THEN Finish([s EXCEPT !.failed = TRUE])
    ELSE IF s.state = "Inactive"
    THEN ExecuteStarted(BidFetcherExecute(SetupBodyparts(
             [s EXCEPT !.tx = NewTransaction,
                       !.state = "InsertingBodyparts",
                       !.bf.made = TRUE])))
    ELSE ExecuteStarted(s))

(***************************************************************************)
(* UidFetcher::execute(), called when the first lock query is done.        *)
(***************************************************************************)
UidFetcherExecute(s0, hasResults, row) ==
    With(IF hasResults
         THEN UidFetcherProcess([s0 EXCEPT !.uf.queries = Tail(@)], row)
         ELSE [s0 EXCEPT !.uf.queries = Tail(@), !.uf.failed = TRUE],
         LAMBDA s2 : IF s2.uf.queries = <<>> THEN InjectorExecute(s2) ELSE s2)

(***************************************************************************)
(* The database server.  Rows written by an open transaction are kept in   *)
(* db.tx[i] until COMMIT moves them to the committed tables; a row lock    *)
(* (SELECT ... FOR UPDATE, UPDATE) is held until the transaction ends; an  *)
(* INSERT of a hash that another open transaction has inserted waits for   *)
(* that transaction to end.                                                *)
(***************************************************************************)
NoTx == [inc |-> [m \in Mailboxes |-> 0],
         rec |-> [m \in Mailboxes |-> 0],
         msgs |-> {}, parts |-> {}, bp |-> {},
         sps |-> <<>>, aborted |-> FALSE]

InitDb ==
    [mbox |-> [m \in Mailboxes |-> [uidnext |-> 1, nextmodseq |-> 1, first_recent |-> 1]],
     lock |-> [m \in Mailboxes |-> NoInjector],
     messages |-> {},
     partNumbers |-> {},
     bodyparts |-> {},
     nextBid |-> 1,
     commits |-> <<>>,
     tx |-> [i \in Injectors |-> NoTx]]

HashesOf(rows) == {r.hash : r \in rows}

HeadQuery(i) == Head(inj[i].tx.queue)

HeadIs(i, kinds) ==
    /\ inj[i].tx.nrel > 0
    /\ HeadQuery(i).k \in kinds

Popped(s) == [s EXCEPT !.tx.queue = Tail(@), !.tx.nrel = @ - 1]

\* The statement cannot run: the Transaction has failed, or the server has
\* aborted the transaction and no ROLLBACK TO has been done since.
CannotRun(i) == inj[i].tx.failed \/ db.tx[i].aborted

\* The row of mailbox m as transaction i sees it.
MailboxRow(i, m) ==
    [uidnext |-> db.mbox[m].uidnext + db.tx[i].inc[m],
     nextmodseq |-> db.mbox[m].nextmodseq + db.tx[i].inc[m],
     first_recent |-> db.mbox[m].first_recent + db.tx[i].rec[m]]

LockFree(i, m) == db.lock[m] \in {NoInjector, i}

\* The open transactions that i's next statement waits for.
WaitsFor(i) ==
    IF ~(inj[i].tx.nrel > 0) \/ CannotRun(i) THEN {}
    ELSE LET q == HeadQuery(i) IN
         CASE q.k \in {"lockUidnext", "incrUidnext", "incrUidnextWithRecent"} ->
                 {j \in Injectors \ {i} : db.lock[q.a] = j}
           [] q.k = "intoBodyparts" ->
                 IF q.b \in HashesOf(db.bodyparts) \cup HashesOf(db.tx[i].bp) THEN {}
                 ELSE {j \in Injectors \ {i} : q.b \in HashesOf(db.tx[j].bp)}
           [] OTHER -> {}

SetInj(i, s) == inj' = [inj EXCEPT ![i] = s]

Abort(i) == db' = [db EXCEPT !.tx[i].aborted = TRUE]

CopyKinds == {"copyMessages", "copyPartNumbers", "copyHeaderFields",
              "copyAddressFields", "insertFlag", "insertAnnotation"}

\* Whether the server may end a statement of kind k with an error of its own
\* (FALSE: it does not, TRUE: it does).  The statements that write the
\* message's rows may always fail; a failing bodypart select is explored for
\* an injector that runs alone.
ServerFaults(k) ==
    IF k \in CopyKinds \/ (k = "idBodypart" /\ Cardinality(live) = 1)
    THEN BOOLEAN ELSE {FALSE}

\* "savepoint a<n>"
DbSavepoint(i) ==
    /\ HeadIs(i, {"savepoint"})
    /\ LET q == HeadQuery(i)
           s == Popped(inj[i])
       IN IF CannotRun(i)
          THEN /\ Abort(i)
               /\ SetInj(i, BidFetcherExecute([s EXCEPT !.tx.failed = TRUE]))
          ELSE /\ db' = [db EXCEPT !.tx[i].sps = Upd(@, q.a, db.tx[i].bp)]
               /\ SetInj(i, BidFetcherExecute(s))
    /\ UNCHANGED <<sessions, live, mailbox, notInjector>>

\* "insert into bodyparts (hash,...)", allowFailure(): a failure leaves the
\* Transaction usable, the server's transaction aborted.
DbIntoBodyparts(i) ==
    /\ HeadIs(i, {"intoBodyparts"})
    /\ WaitsFor(i) = {}
    /\ LET q == HeadQuery(i)
           s == Popped(inj[i])
           dup == q.b \in HashesOf(db.bodyparts) \cup HashesOf(db.tx[i].bp)
       IN IF CannotRun(i) \/ dup
          THEN /\ Abort(i)
               /\ SetInj(i, BidFetcherExecute([s EXCEPT !.bodyparts[q.a].insert = "failed"]))
          ELSE /\ db' = [db EXCEPT !.tx[i].bp = @ \cup {[id |-> db.nextBid, hash |-> q.b]},
                                   !.nextBid = @ + 1]
               /\ SetInj(i, BidFetcherExecute([s EXCEPT !.bodyparts[q.a].insert = "ok"]))
    /\ UNCHANGED <<sessions, live, mailbox, notInjector>>

\* "rollback to a<n>"
DbRollbackTo(i) ==
    /\ HeadIs(i, {"rollbackTo"})
    /\ LET q == HeadQuery(i)
           s == Popped(inj[i])
       IN IF inj[i].tx.failed
          THEN /\ UNCHANGED db
               /\ SetInj(i, BidFetcherExecute(s))
          ELSE /\ db' = [db EXCEPT !.tx[i].bp = db.tx[i].sps[q.a],
                                   !.tx[i].aborted = FALSE]
               /\ SetInj(i, BidFetcherExecute(s))
    /\ UNCHANGED <<sessions, live, mailbox, notInjector>>

\* "select id from bodyparts where hash=$1": sees committed rows and the
\* transaction's own.
DbIdBodypart(i) ==
    /\ HeadIs(i, {"idBodypart"})
    /\ \E fail \in ServerFaults("idBodypart") :
       LET q == HeadQuery(i)
           s == Popped(inj[i])
           rows == {r \in db.bodyparts \cup db.tx[i].bp : r.hash = q.b}
       IN IF CannotRun(i) \/ fail
          THEN /\ Abort(i)
               /\ SetInj(i, BidFetcherExecute(
                      [s EXCEPT !.bodyparts[q.a].select = "failed", !.tx.failed = TRUE]))
          ELSE /\ UNCHANGED db
               /\ IF rows = {}
                  THEN SetInj(i, BidFetcherExecute([s EXCEPT !.bodyparts[q.a].select = "norow"]))
                  ELSE SetInj(i, BidFetcherExecute(
                           [s EXCEPT !.bodyparts[q.a].select = "row",
                                     !.bodyparts[q.a].row = (CHOOSE r \in rows : TRUE).id]))
    /\ UNCHANGED <<sessions, live, mailbox, notInjector>>

\* lockUidnext without "for update".
LockQueryPlain == FALSE

\* Whether a lock query takes the row lock ("for update").
LockQueryLocks == TRUE

\* "select uidnext,nextmodseq,first_recent from mailboxes where id=$1 for update"
DbLockUidnext(i) ==
    /\ HeadIs(i, {"lockUidnext"})
    /\ LET q == HeadQuery(i)
           s == Popped(inj[i])
       IN IF CannotRun(i)
          THEN /\ Abort(i)
               /\ SetInj(i, UidFetcherExecute([s EXCEPT !.tx.failed = TRUE], FALSE, 0))
          ELSE /\ LockQueryLocks => LockFree(i, q.a)
               /\ db' = [db EXCEPT !.lock[q.a] = IF LockQueryLocks THEN i ELSE @]
               /\ SetInj(i, UidFetcherExecute(s, TRUE, MailboxRow(i, q.a)))
    /\ UNCHANGED <<sessions, live, mailbox, notInjector>>

\* "update mailboxes set uidnext=uidnext+1,nextmodseq=nextmodseq+1
\*  [,first_recent=first_recent+1] where id=$1"
DbIncrUidnext(i) ==
    /\ HeadIs(i, {"incrUidnext", "incrUidnextWithRecent"})
    /\ LET q == HeadQuery(i)
           s == Popped(inj[i])
       IN IF CannotRun(i)
          THEN /\ Abort(i)
               /\ SetInj(i, InjectorExecute([s EXCEPT !.tx.failed = TRUE]))
          ELSE /\ LockFree(i, q.a)
               /\ db' = [db EXCEPT !.lock[q.a] = i,
                                   !.tx[i].inc[q.a] = @ + 1,
                                   !.tx[i].rec[q.a] =
                                       IF q.k = "incrUidnextWithRecent" THEN @ + 1 ELSE @]
               /\ SetInj(i, s)
    /\ UNCHANGED <<sessions, live, mailbox, notInjector>>

\* The COPY and INSERT statements that write the message's rows.  Any of
\* them may fail on the server (fail).
DbCopy(i) ==
    /\ HeadIs(i, CopyKinds)
    /\ \E fail \in ServerFaults(HeadQuery(i).k) :
       LET q == HeadQuery(i)
           s == Popped(inj[i])
       IN IF CannotRun(i) \/ fail
          THEN /\ Abort(i)
               /\ SetInj(i, InjectorExecute([s EXCEPT !.tx.failed = TRUE]))
          ELSE /\ db' = [db EXCEPT
                          !.tx[i].msgs = IF q.k = "copyMessages" THEN @ \cup q.rows ELSE @,
                          !.tx[i].parts = IF q.k = "copyPartNumbers" THEN @ \cup q.rows ELSE @]
               /\ IF q.k \in {"insertFlag", "insertAnnotation"}
                  THEN SetInj(i, InjectorExecute(s))
                  ELSE SetInj(i, s)
    /\ UNCHANGED <<sessions, live, mailbox, notInjector>>

\* The queries of FieldNameCache::lookup() and AddressCache::lookup().
DbLookup(i) ==
    /\ HeadIs(i, {"fieldLookup", "addressLookup"})
    /\ LET q == HeadQuery(i)
           s == Popped(inj[i])
       IN IF CannotRun(i)
          THEN /\ Abort(i)
               /\ SetInj(i, InjectorExecute([s EXCEPT !.tx.failed = TRUE]))
          ELSE /\ UNCHANGED db
               /\ IF q.k = "fieldLookup"
                  THEN SetInj(i, InjectorExecute([s EXCEPT !.fieldLookup = "done"]))
                  ELSE SetInj(i, InjectorExecute([s EXCEPT !.addressLookup = "done"]))
    /\ UNCHANGED <<sessions, live, mailbox, notInjector>>

ReleaseLocks(i) == [m \in Mailboxes |-> IF db.lock[m] = i THEN NoInjector ELSE db.lock[m]]

DbDiscard(i) == [db EXCEPT !.tx[i] = NoTx, !.lock = ReleaseLocks(i)]

\* COMMIT: makes the transaction's rows and updates visible, or, in an
\* aborted transaction, rolls back.
DbCommit(i) ==
    /\ HeadIs(i, {"commit"})
    /\ LET s == Popped(inj[i])
           t == db.tx[i]
       IN IF CannotRun(i)
          THEN /\ db' = DbDiscard(i)
               /\ SetInj(i, InjectorExecute([s EXCEPT !.tx.failed = TRUE, !.tx.done = TRUE]))
          ELSE /\ db' = [db EXCEPT
                          !.mbox = [m \in Mailboxes |->
                                       [uidnext |-> @[m].uidnext + t.inc[m],
                                        nextmodseq |-> @[m].nextmodseq + t.inc[m],
                                        first_recent |-> @[m].first_recent + t.rec[m]]],
                          !.messages = @ \cup {[mailbox |-> r[1], uid |-> r[2],
                                                ms |-> r[3], by |-> i] : r \in t.msgs},
                          !.partNumbers = @ \cup t.parts,
                          !.bodyparts = @ \cup t.bp,
                          !.commits = Append(@, i),
                          !.lock = ReleaseLocks(i),
                          !.tx[i] = NoTx]
               /\ SetInj(i, InjectorExecute([s EXCEPT !.tx.done = TRUE, !.tx.committed = TRUE]))
    /\ UNCHANGED <<sessions, live, mailbox, notInjector>>

\* ROLLBACK
DbRollback(i) ==
    /\ HeadIs(i, {"rollback"})
    /\ db' = DbDiscard(i)
    /\ SetInj(i, InjectorExecute([Popped(inj[i]) EXCEPT !.tx.done = TRUE]))
    /\ UNCHANGED <<sessions, live, mailbox, notInjector>>

\* The server's deadlock detector: i waits for j and j for i; i's statement
\* ends with an error.
DbDeadlock(i) ==
    /\ \E j \in WaitsFor(i) : i \in WaitsFor(j)
    /\ LET q == HeadQuery(i)
           s == Popped(inj[i])
       IN /\ Abort(i)
          /\ CASE q.k = "intoBodyparts" ->
                    SetInj(i, BidFetcherExecute([s EXCEPT !.bodyparts[q.a].insert = "failed"]))
               [] q.k = "lockUidnext" ->
                    SetInj(i, UidFetcherExecute([s EXCEPT !.tx.failed = TRUE], FALSE, 0))
               [] OTHER ->
                    SetInj(i, InjectorExecute([s EXCEPT !.tx.failed = TRUE]))
    /\ UNCHANGED <<sessions, live, mailbox, notInjector>>

(***************************************************************************)
(* Injector::announce().  The Mailbox object of this process knows uidnext *)
(* and nextmodseq as of the last announcement; each session of the mailbox *)
(* has its set of recent UIDs and the changes recorded for it; log lists   *)
(* the injectors that have announced, ended the sessions that have ended.  *)
(***************************************************************************)
MaxSessionsPerMailbox == 2

InitMailbox ==
    [m \in Mailboxes |->
        [uidnext |-> InitDb.mbox[m].uidnext,
         nextmodseq |-> InitDb.mbox[m].nextmodseq,
         recent |-> [s \in 1..MaxSessionsPerMailbox |-> {}],
         changes |-> {},
         log |-> <<>>,
         ended |-> {}]]

\* "if ( m->uidnext() <= uid && m->nextModSeq() <= mi->ms ) ... else if ..."
\* replaced by an unconditional setUidnextAndNextModSeq().
SetUidnextAlways(mb, u) ==
    [mb EXCEPT !.uidnext = 1 + u.uid, !.nextmodseq = 1 + u.ms]

\* "if ( m->uidnext() <= uid && m->nextModSeq() <= mi->ms ) ... else if ..."
SetUidnext(mb, u) ==
    IF mb.uidnext <= u.uid /\ mb.nextmodseq <= u.ms
    THEN [mb EXCEPT !.uidnext = 1 + u.uid, !.nextmodseq = 1 + u.ms]
    ELSE IF mb.uidnext <= u.uid
    THEN [mb EXCEPT !.uidnext = 1 + u.uid]
    ELSE IF mb.nextmodseq <= u.ms
    THEN [mb EXCEPT !.nextmodseq = 1 + u.ms]
    ELSE mb

\* "if ( si == mi->recentIn ) si->addRecent( uid )"
AddRecent(mb, u, ss) ==
    [mb EXCEPT !.recent = [s \in DOMAIN @ |->
                              IF s \in ss /\ s = u.recentIn
                              THEN @[s] \cup {u.uid} ELSE @[s]]]

\* "si->recordChange( &dummy, Session::New )" for every session of the
\* mailbox; dummy is the list of messages announce() passes.
RecordChange(mb, i, dummy, ss) ==
    [mb EXCEPT !.changes = @ \cup {[session |-> s, by |-> i, msgs |-> dummy] :
                                      s \in ss}]

\* The list "dummy" of announce(): the message, if it went into one mailbox.
Dummy(i) == IF Len(inj[i].mailboxes) = 1 THEN {i} ELSE {}

\* The body of announce()'s loop for the Uid at position k.
AnnounceMailbox(i, k) ==
    LET u == inj[i].mailboxes[k]
        m == u.mailbox
    IN [RecordChange(AddRecent(SetUidnext(mailbox[m], u), u, sessions[m]),
                     i, Dummy(i), sessions[m])
           EXCEPT !.log = Append(@, i)]

\* The owner calls announce() once the injector is done and has not failed.
Announce(i) ==
    /\ inj[i].state = "Done" /\ ~inj[i].failed
    /\ ~inj[i].announced
    /\ mailbox' = [m \in Mailboxes |->
                     IF \E k \in DOMAIN inj[i].mailboxes :
                            inj[i].mailboxes[k].mailbox = m
                     THEN AnnounceMailbox(i, CHOOSE k \in DOMAIN inj[i].mailboxes :
                                                inj[i].mailboxes[k].mailbox = m)
                     ELSE mailbox[m]]
    /\ inj' = [inj EXCEPT ![i].announced = TRUE]
    /\ UNCHANGED <<db, sessions, live, notInjector>>

\* A client selects mailbox m: a session is opened on it, a new Session
\* object at the end of the mailbox's list of sessions.
SessionOpens(m) ==
    /\ (1..MaxSessionsPerMailbox) \ (sessions[m] \cup mailbox[m].ended) # {}
    /\ sessions' = [sessions EXCEPT ![m] =
                       @ \cup {Min((1..MaxSessionsPerMailbox)
                                       \ (@ \cup mailbox[m].ended))}]
    /\ UNCHANGED <<inj, db, live, mailbox, notInjector>>

\* The client of session s leaves mailbox m: the session ends and is taken
\* off the mailbox's list of sessions.
SessionCloses(m, s) ==
    /\ s \in sessions[m]
    /\ sessions' = [sessions EXCEPT ![m] = @ \ {s}]
    /\ mailbox' = [mailbox EXCEPT ![m].ended = @ \cup {s}]
    /\ UNCHANGED <<inj, db, live, notInjector>>

(***************************************************************************)
(* The injector's callers.                                                 *)
(***************************************************************************)
\* The owner calls Injector::execute().
CallExecute(i) ==
    /\ inj[i].calls < inj[i].maxCalls
    /\ SetInj(i, InjectorExecute([inj[i] EXCEPT !.calls = @ + 1]))
    /\ UNCHANGED <<db, sessions, live, mailbox, notInjector>>

\* The FlagCreator started by createFlags() has created the flag and
\* notifies the injector.
FlagCreated(i) ==
    /\ inj[i].state # "Inactive"
    /\ inj[i].flags = "unknown"
    /\ SetInj(i, InjectorExecute([inj[i] EXCEPT !.flags = "known"]))
    /\ UNCHANGED <<db, sessions, live, mailbox, notInjector>>

\* The AnnotationNameCreator started by createAnnotationNames() is done.
AnnotationNameCreated(i) ==
    /\ inj[i].state # "Inactive"
    /\ inj[i].annotations = "unknown"
    /\ SetInj(i, InjectorExecute([inj[i] EXCEPT !.annotations = "known"]))
    /\ UNCHANGED <<db, sessions, live, mailbox, notInjector>>

\* The parts of the program that a specification leaves out stand still.
NoImap == "none"
NoPool == "none"
NoSmtp == "none"

MailboxLists == {SortedSeq(S) : S \in (SUBSET Mailboxes) \ {{}}}

PartLists == SeqsUpTo(Hashes \cup {0, -1}, MaxParts)

NameStates == {"none", "unknown"}

\* One injector, every kind of message and every answer of the server.
InitInjector ==
    /\ live = {"A"}
    /\ \E c \in {NewInjector(v, ms, ps, f, a, MaxExecuteCalls) :
                    v \in BOOLEAN, ms \in MailboxLists, ps \in PartLists,
                    f \in NameStates, a \in NameStates} :
          inj = [i \in Injectors |->
                    IF i \in live THEN c
                    ELSE NewInjector(TRUE, <<1>>, <<0>>, "none", "none", 0)]
    /\ db = InitDb
    /\ sessions \in [Mailboxes -> {{}, {1}}]
    /\ mailbox = InitMailbox
    /\ imap = NoImap
    /\ pool = NoPool
    /\ smtp = NoSmtp

\* The messages of two injectors that run at the same time: no bodypart is
\* stored (the injectors meet at the mailbox rows only), or the bodyparts
\* are shared, repeated, in the same and in the opposite order.
ConcurrentPartLists == {<<0>>, <<1>>, <<1, 2>>, <<2, 1>>, <<1, 1>>, <<0, 1>>}

InitInjectors ==
    /\ live = Injectors
    /\ inj \in [Injectors ->
                 {NewInjector(TRUE, ms, ps, "none", "none", 1) :
                     ms \in MailboxLists, ps \in ConcurrentPartLists}]
    /\ db = InitDb
    /\ sessions \in {[m \in Mailboxes |-> S] : S \in {{}, {1}}}
    /\ mailbox = InitMailbox
    /\ imap = NoImap
    /\ pool = NoPool
    /\ smtp = NoSmtp

\* One injector and its callers, creators and database session.
NextInjector ==
    \/ \E i \in live : CallExecute(i)
    \/ \E i \in live : FlagCreated(i)
    \/ \E i \in live : AnnotationNameCreated(i)
    \/ \E i \in live : DbSavepoint(i)
    \/ \E i \in live : DbIntoBodyparts(i)
    \/ \E i \in live : DbRollbackTo(i)
    \/ \E i \in live : DbIdBodypart(i)
    \/ \E i \in live : DbLockUidnext(i)
    \/ \E i \in live : DbIncrUidnext(i)
    \/ \E i \in live : DbCopy(i)
    \/ \E i \in live : DbLookup(i)
    \/ \E i \in live : DbCommit(i)
    \/ \E i \in live : DbRollback(i)

SpecInjector == InitInjector /\ [][NextInjector]_vars

\* Two injectors whose messages need no flag or annotation name, and the
\* server's deadlock detector.
NextInjectors ==
    \/ \E i \in live : CallExecute(i)
    \/ \E i \in live : DbSavepoint(i)
    \/ \E i \in live : DbIntoBodyparts(i)
    \/ \E i \in live : DbRollbackTo(i)
    \/ \E i \in live : DbIdBodypart(i)
    \/ \E i \in live : DbLockUidnext(i)
    \/ \E i \in live : DbIncrUidnext(i)
    \/ \E i \in live : DbCopy(i)
    \/ \E i \in live : DbLookup(i)
    \/ \E i \in live : DbCommit(i)
    \/ \E i \in live : DbRollback(i)
    \/ \E i \in live : DbDeadlock(i)

SpecInjectors == InitInjectors /\ [][NextInjectors]_vars

\* Two injectors whose messages have no bodypart to store, the sessions
\* that clients open meanwhile, and the announcements of the injections.
InitAnnounce ==
    /\ live = Injectors
    /\ inj \in [Injectors ->
                 {NewInjector(TRUE, ms, <<0>>, "none", "none", 1) :
                     ms \in MailboxLists}]
    /\ db = InitDb
    /\ sessions \in [Mailboxes -> {{}, {1}}]
    /\ mailbox = InitMailbox
    /\ imap = NoImap
    /\ pool = NoPool
    /\ smtp = NoSmtp

NextAnnounce ==
    \/ \E i \in live : CallExecute(i)
    \/ \E i \in live : DbLockUidnext(i)
    \/ \E i \in live : DbIncrUidnext(i)
    \/ \E i \in live : DbCopy(i)
    \/ \E i \in live : DbLookup(i)
    \/ \E i \in live : DbCommit(i)
    \/ \E i \in live : Announce(i)
    \/ \E m \in Mailboxes : SessionOpens(m)

SpecAnnounce == InitAnnounce /\ [][NextAnnounce]_vars

\* One injector whose message has no bodypart to store, and the sessions
\* that clients open and end meanwhile.
InitRecent ==
    /\ live = {"A"}
    /\ \E ms \in MailboxLists :
          inj = [i \in Injectors |->
                    IF i \in live THEN NewInjector(TRUE, ms, <<0>>, "none", "none", 1)
                    ELSE NewInjector(TRUE, <<1>>, <<0>>, "none", "none", 0)]
    /\ db = InitDb
    /\ sessions \in [Mailboxes -> {{}, {1}}]
    /\ mailbox = InitMailbox
    /\ imap = NoImap
    /\ pool = NoPool
    /\ smtp = NoSmtp

NextRecent ==
    \/ \E i \in live : CallExecute(i)
    \/ \E i \in live : DbLockUidnext(i)
    \/ \E i \in live : DbIncrUidnext(i)
    \/ \E i \in live : DbCopy(i)
    \/ \E i \in live : DbLookup(i)
    \/ \E i \in live : DbCommit(i)
    \/ \E i \in live : Announce(i)
    \/ \E m \in Mailboxes : SessionOpens(m)
    \/ \E m \in Mailboxes, s \in 1..MaxSessionsPerMailbox : SessionCloses(m, s)

SpecRecent == InitRecent /\ [][NextRecent]_vars

(***************************************************************************)
(* Injector::done(), Injector::failed() and Injector::error(); the error   *)
(* is named by where it comes from.                                        *)
(***************************************************************************)
InjectorIsDone(s) == s.failed \/ s.state = "Done"

InjectorFailed(s) == s.failed

InjectorError(s) ==
    IF ~s.failed THEN ""
    ELSE IF ~s.valid THEN "message"
    ELSE IF s.bf.failed THEN "bidFetcher"
    ELSE IF ~s.tx.made THEN ""
    ELSE "transaction"

\* Injector::uid( mailbox )
InjectorUid(s, m) ==
    IF \E k \in DOMAIN s.mailboxes : s.mailboxes[k].mailbox = m
    THEN s.mailboxes[Min({k \in DOMAIN s.mailboxes : s.mailboxes[k].mailbox = m})].uid
    ELSE 0

(***************************************************************************)
(* Properties of the Injector.                                             *)
(***************************************************************************)
\* C1: the injector calls owner.execute() exactly once: never a second
\* time, whatever calls and callbacks follow, and once as soon as the
\* injection has completed or failed (the message is invalid, the
\* transaction is done, the state is Done); and not before.
OwnerExecutedOnce ==
    \A i \in live :
        /\ inj[i].ownerCalls <= 1
        /\ (\/ inj[i].state = "Done"
            \/ inj[i].tx.done
            \/ (~inj[i].valid /\ inj[i].calls > 0)) => inj[i].ownerCalls = 1
        /\ inj[i].ownerCalls = 1 =>
               \/ inj[i].state = "Done" /\ inj[i].tx.done
               \/ ~inj[i].valid /\ inj[i].failed /\ inj[i].state = "Inactive"

\* The owner has been notified of a failed bodypart lookup, and execute() has
\* been called again since the injector was created.
OwnerExecutedOnceWitness ==
    \E i \in live :
        /\ inj[i].ownerCalls = 1
        /\ inj[i].state = "Done"
        /\ inj[i].bf.failed
        /\ inj[i].calls = MaxExecuteCalls

\* The position of injector i's COMMIT among the commits of the server.
CommitPos(i) == CHOOSE k \in DOMAIN db.commits : db.commits[k] = i

\* C2: for two committed messages rows of one mailbox written by different
\* injectors, the injector that committed first has the smaller UID and
\* the smaller modseq.
UidsFollowCommitOrder ==
    \A r1, r2 \in db.messages :
        (r1.mailbox = r2.mailbox /\ r1.by # r2.by
            /\ CommitPos(r1.by) < CommitPos(r2.by))
        => (r1.uid < r2.uid /\ r1.ms < r2.ms)

\* Both injectors have committed a message into one mailbox.
UidsFollowCommitOrderWitness ==
    \E r1, r2 \in db.messages :
        /\ r1.mailbox = r2.mailbox
        /\ r1.by # r2.by
        /\ Len(db.commits) = 2

\* C3: in every committed state of a mailbox with uidnext U, every UID from
\* the initial uidnext (1) to U-1 belongs to exactly one committed messages
\* row, and no row has another UID: no duplicate, no gap.
UidsDistinctAndConsecutive ==
    \A m \in Mailboxes :
        LET rows == {r \in db.messages : r.mailbox = m} IN
        /\ \A u \in 1..(db.mbox[m].uidnext - 1) :
               Cardinality({r \in rows : r.uid = u}) = 1
        /\ \A r \in rows : r.uid \in 1..(db.mbox[m].uidnext - 1)

\* Two injections into one mailbox have committed UIDs 1 and 2 while an
\* earlier allocation was rolled back or not.
UidsDistinctAndConsecutiveWitness ==
    \E m \in Mailboxes :
        /\ db.mbox[m].uidnext = 3
        /\ {r.uid : r \in {x \in db.messages : x.mailbox = m}} = {1, 2}

\* One injection has committed UID 1 of a mailbox after another injector had
\* allocated that UID and rolled back.
UidReusedAfterRollback ==
    \E m \in Mailboxes : \E i, j \in live :
        /\ i # j
        /\ \E r \in db.messages : r.mailbox = m /\ r.uid = 1 /\ r.by = i
        /\ inj[j].tx.done /\ ~inj[j].tx.committed
        /\ \E k \in DOMAIN inj[j].mailboxes :
               inj[j].mailboxes[k].mailbox = m /\ inj[j].mailboxes[k].uid = 1

\* The injectors whose mailbox row lock injector i's next statement waits for.
MailboxWaits(i) ==
    IF HeadIs(i, {"lockUidnext", "incrUidnext", "incrUidnextWithRecent"})
    THEN WaitsFor(i) ELSE {}

\* C4: an injector's pending lock queries are in ascending mailbox order and
\* above every mailbox it has locked; a lock taken is held until the
\* transaction is done; and no two injectors wait for a mailbox lock that
\* the other holds.
LocksAscendingNoDeadlock ==
    /\ \A i \in live :
        LET q == inj[i].tx.queue
            locks == {k \in DOMAIN q : q[k].k = "lockUidnext"}
        IN /\ \A k1, k2 \in locks : k1 < k2 => q[k1].a < q[k2].a
           /\ \A k \in locks : \A m \in Mailboxes : db.lock[m] = i => m < q[k].a
           /\ (inj[i].uf.made /\ ~inj[i].tx.done) =>
                 \A k \in 1..(inj[i].uf.li - 1) :
                     db.lock[inj[i].mailboxes[k].mailbox] = i
    /\ \A i, j \in live : ~(j \in MailboxWaits(i) /\ i \in MailboxWaits(j))

\* Two injectors share two mailboxes; one holds the lock of the first and
\* the other waits for it.
LocksAscendingNoDeadlockWitness ==
    \E i, j \in live :
        /\ i # j
        /\ Len(inj[i].mailboxes) = 2 /\ Len(inj[j].mailboxes) = 2
        /\ HeadIs(i, {"lockUidnext"})
        /\ j \in MailboxWaits(i)

\* The committed bodyparts rows with hash h.
RowsWithHash(h) == {r \in db.bodyparts : r.hash = h}

\* C5: for injectors whose messages share a storable bodypart, at most one
\* committed bodyparts row has its hash, no injector's bodypart lookup fails
\* (the failed INSERT is undone by ROLLBACK TO and the SELECT finds the row),
\* and every injector that has committed recorded the id of that one row.
SharedBodypartConverges ==
    /\ \A h \in Hashes : Cardinality(RowsWithHash(h)) <= 1
    /\ \A i \in live : ~inj[i].bf.failed
    /\ \A i \in live : inj[i].tx.committed =>
           \A k \in DOMAIN inj[i].bodyparts :
               inj[i].bodyparts[k].hash \in Hashes =>
                   RowsWithHash(inj[i].bodyparts[k].hash) =
                       {[id |-> inj[i].bodyparts[k].bid,
                         hash |-> inj[i].bodyparts[k].hash]}

(***************************************************************************)
(* The IMAP connection (src/imap/imap.cpp).  Bytes are one-character       *)
(* strings; CRLF stands for the line terminator that Buffer::removeLine()  *)
(* strips.                                                                 *)
(***************************************************************************)
MaxInput == 7          \* bytes received by the connection whose framing is explored
MaxLines == 3          \* lines received by the connection whose commands are scheduled

CRLF == "crlf"
NUL == "nul"
DigitChars == <<"0", "1", "2", "3", "4", "5", "6", "7", "8", "9">>
\* A uint that is decremented below zero wraps around to an index beyond
\* the end of every String; WrappedIndex stands for all such values.
WrappedIndex == 2147483647

Uint(x) == IF x < 0 THEN WrappedIndex ELSE x

\* String::operator[]: the byte at (0-based) i, NUL outside the string.
CharAt(s, i) == IF i >= 0 /\ i < Len(s) THEN s[i + 1] ELSE NUL

IsDigit(c) == \E k \in DOMAIN DigitChars : DigitChars[k] = c

DigitValue(c) == (CHOOSE k \in DOMAIN DigitChars : DigitChars[k] = c) - 1

\* String::number(): the decimal value of a string of digits.
RECURSIVE Number(_)
Number(ds) ==
    IF ds = <<>> THEN 0
    ELSE Number(SubSeq(ds, 1, Len(ds) - 1)) * 10 + DigitValue(ds[Len(ds)])

\* "while ( i > 0 && (*s)[i] >= '0' && (*s)[i] <= '9' ) i--;"
RECURSIVE SkipDigits(_, _)
SkipDigits(s, i) ==
    IF i > 0 /\ IsDigit(CharAt(s, i)) THEN SkipDigits(s, i - 1) ELSE i

NoLiteral == [lit |-> FALSE, n |-> 0, plus |-> FALSE]

\* endsWithLiteral() without the test for a trailing '+'.
EndsWithLiteralNoPlus(s) ==
    IF Len(s) = 0 \/ s[Len(s)] # "}" THEN NoLiteral
    ELSE LET j == Uint(Len(s) - 2)
             i == SkipDigits(s, j)
         IN IF CharAt(s, i) # "{" THEN NoLiteral
            ELSE LET ds == SubSeq(s, i + 2, j + 1)
                 IN [lit |-> ds # <<>>, n |-> Number(ds), plus |-> FALSE]

\* endsWithLiteral( s, &n, &plus )
EndsWithLiteral(s) ==
    IF Len(s) = 0 \/ s[Len(s)] # "}" THEN NoLiteral
    ELSE LET i0 == Uint(Len(s) - 2)
             plus == CharAt(s, i0) = "+"
             j == IF plus THEN Uint(i0 - 1) ELSE i0
             i == SkipDigits(s, j)
         IN IF CharAt(s, i) # "{" THEN NoLiteral
            ELSE LET ds == SubSeq(s, i + 2, j + 1)
                 IN [lit |-> ds # <<>>, n |-> Number(ds), plus |-> plus]

\* Buffer::removeLine(): the first line without its terminator and what
\* follows it, if a complete line has arrived.
RemoveLine(buf) ==
    LET ends == {k \in DOMAIN buf : buf[k] = CRLF} IN
    IF ends = {} THEN [found |-> FALSE, line |-> <<>>, rest |-> buf]
    ELSE [found |-> TRUE,
          line |-> SubSeq(buf, 1, Min(ends) - 1),
          rest |-> SubSeq(buf, Min(ends) + 1, Len(buf))]

(***************************************************************************)
(* Commands.  The Command class and its subclasses other than Authenticate *)
(* are not part of the sources at hand: a command is described by what its *)
(* handler will do (valid, parseErr, parseGroup, needsDb, execErr, defer,  *)
(* unblocks: its execute() calls unblockCommands() when it is done).       *)
(***************************************************************************)
CommandUnparsed == 0   \* Command::Unparsed, the first value of Command::State

NewCommand(id, line, sc) ==
    [id |-> id, line |-> line, group |-> sc.group, state |-> "Unparsed",
     ok |-> TRUE, valid |-> sc.valid, parseErr |-> sc.parseErr,
     parseGroup |-> sc.parseGroup, needsDb |-> sc.needsDb,
     execErr |-> sc.execErr, deferLeft |-> sc.defer, reserves |-> sc.reserves,
     mech |-> "none", r |-> "none", ready |-> FALSE, parses |-> 0,
     name |-> sc.name, unblocks |-> sc.unblocks]

SetCmd(im, k, c) == [im EXCEPT !.commands[k] = c]

\* Command::error(): the command is no longer ok() and is Finished.
CmdError(c) == [c EXCEPT !.ok = FALSE, !.state = "Finished"]

\* Command::finish()
CmdFinish(c) == [c EXCEPT !.state = "Finished"]

\* Command::parse(): may change the group, may raise an error.
CmdParse(c) ==
    LET c1 == [c EXCEPT !.group = c.parseGroup,
                        !.parses = IF @ < 2 THEN @ + 1 ELSE @]
    IN IF c.parseErr THEN CmdError(c1) ELSE c1

\* Command::emitResponses(): the responses of a command that is ok() may be
\* deferred, those of a failed command are sent; a command whose responses
\* are sent is Retired.
EmitResponses(c) ==
    IF c.ok /\ c.deferLeft > 0 THEN [c EXCEPT !.deferLeft = @ - 1]
    ELSE [c EXCEPT !.state = "Retired"]

\* Authenticate::execute() once the mechanism has made up its mind.
AuthenticateDone(im, k) ==
    LET c == [im.commands[k] EXCEPT !.mech = "done"] IN
    [im EXCEPT !.reader = 0,
               !.commands[k] = IF c.execErr THEN CmdError(c) ELSE CmdFinish(c)]

\* Authenticate::execute() without the call of reserve().
AuthenticateWithoutReserve(im, k) ==
    LET c == im.commands[k] IN
    CASE c.mech = "none" ->
            [im EXCEPT !.out = Append(@, [k |-> "challenge", id |-> c.id]),
                       !.commands[k].mech = "AwaitingResponse",
                       !.commands[k].r = "none"]
      [] c.mech = "AwaitingResponse" ->
            IF c.r = "none" THEN im
            ELSE IF c.r = "star" THEN SetCmd(im, k, CmdError(c))
            ELSE IF c.needsDb /\ ~c.ready
                 THEN [im EXCEPT !.commands[k].r = "none",
                                 !.commands[k].mech = "Authenticating"]
                 ELSE AuthenticateDone([im EXCEPT !.commands[k].r = "none"], k)
      [] c.mech = "Authenticating" ->
            IF c.ready THEN AuthenticateDone(im, k) ELSE im
      [] OTHER -> im

\* Authenticate::execute()
AuthenticateExecute(im, k) ==
    LET c == im.commands[k] IN
    CASE c.mech = "none" ->
            [im EXCEPT !.reader = c.id,
                       !.out = Append(@, [k |-> "challenge", id |-> c.id]),
                       !.commands[k].mech = "AwaitingResponse",
                       !.commands[k].r = "none"]
      [] c.mech = "AwaitingResponse" ->
            IF c.r = "none" THEN im
            ELSE IF c.r = "star" THEN SetCmd(im, k, CmdError(c))
            ELSE IF c.needsDb /\ ~c.ready
                 THEN [im EXCEPT !.commands[k].r = "none",
                                 !.commands[k].mech = "Authenticating"]
                 ELSE AuthenticateDone([im EXCEPT !.commands[k].r = "none"], k)
      [] c.mech = "Authenticating" ->
            IF c.ready THEN AuthenticateDone(im, k) ELSE im
      [] OTHER -> im

RECURSIVE RunCommands(_)

\* unblockCommands() that does not note the request.
UnblockCommandsNoFlag(im) ==
    IF im.runningCommands THEN im ELSE RunCommands(im)

\* IMAP::unblockCommands()
ImapUnblockCommands(im) ==
    IF im.runningCommands THEN [im EXCEPT !.runCommandsAgain = TRUE]
    ELSE RunCommands(im)

\* A command that is done calls imap()->unblockCommands(), if it is one of
\* those that do; asked records the call.
CommandDone(im, k) ==
    IF im.commands[k].unblocks
    THEN ImapUnblockCommands([im EXCEPT !.asked = TRUE])
    ELSE im

\* Command::execute() of the command at position k.
CommandExecute(im0, k) ==
    With(im0, LAMBDA im :
        LET c == im.commands[k] IN
        IF c.reserves THEN AuthenticateExecute(im, k)
        ELSE IF c.needsDb /\ ~c.ready THEN im
        ELSE IF c.execErr THEN CommandDone(SetCmd(im, k, CmdError(c)), k)
        ELSE CommandDone(SetCmd(im, k, CmdFinish(c)), k))

\* Authenticate::read(): r = imap()->readBuffer()->removeLine(); reads
\* counts the lines removed.
CommandRead(im) ==
    LET k == CHOOSE x \in DOMAIN im.commands : im.commands[x].id = im.reader
        l == RemoveLine(im.rbuf)
    IN [im EXCEPT !.rbuf = l.rest,
                  !.reads = IF l.found THEN @ + 1 ELSE @,
                  !.commands[k].r = IF ~l.found THEN "none"
                                    ELSE IF l.line = <<"*">> THEN "star"
                                    ELSE "line"]

(***************************************************************************)
(* IMAP::addCommand() and IMAP::parse().                                   *)
(***************************************************************************)
\* addCommand(): sc.known says whether the line has a tag and names a
\* command; "lines" records the buffer each call was made with.
AddCommand(im, sc) ==
    IF ~sc.known
    THEN [im EXCEPT !.lines = Append(@, im.str),
                    !.out = Append(@, [k |-> "bad", id |-> 0])]
    ELSE [im EXCEPT !.lines = Append(@, im.str),
                    !.commands = Append(@, NewCommand(im.nextId, im.str, sc)),
                    !.nextId = @ + 1]

RECURSIVE Parse(_, _)
Parse(im0, sc) ==
    With(im0, LAMBDA im :
        IF ~im.readingLiteral /\ im.reader = 0
        THEN LET l == RemoveLine(im.rbuf) IN
             IF ~l.found THEN im
             ELSE LET e == EndsWithLiteral(l.line)
                      got == [im EXCEPT !.rbuf = l.rest, !.str = @ \o l.line]
                  IN IF e.lit
                     THEN Parse([got EXCEPT
                                    !.str = @ \o <<CRLF>>,
                                    !.readingLiteral = TRUE,
                                    !.literalSize = e.n,
                                    !.out = IF e.plus THEN @
                                            ELSE Append(@, [k |-> "reading literal",
                                                            id |-> 0])],
                                sc)
                     ELSE Parse([AddCommand(got, sc) EXCEPT !.str = <<>>], sc)
        ELSE IF im.readingLiteral
        THEN IF Len(im.rbuf) < im.literalSize THEN im
             ELSE Parse([im EXCEPT
                            !.str = @ \o SubSeq(im.rbuf, 1, im.literalSize),
                            !.rbuf = SubSeq(@, im.literalSize + 1, Len(@)),
                            !.readingLiteral = FALSE],
                        sc)
        ELSE With(CommandRead(im),
                  LAMBDA x : IF x.reader # 0 THEN x ELSE Parse(x, sc)))

(***************************************************************************)
(* IMAP::runCommands().  emitLog, busyGroups and startLog record what the  *)
(* last pass did; further counts the passes after the first one, owed the  *)
(* passes in which unblockCommands() was called, nested the calls of       *)
(* runCommands() made while it was running.                                *)
(***************************************************************************)
\* "run all currently executing commands once"
RECURSIVE RunExecuting(_, _)
RunExecuting(im0, k) ==
    With(im0, LAMBDA im :
        IF k > Len(im.commands) THEN im
        ELSE LET c == im.commands[k] IN
             IF c.state # "Executing" THEN RunExecuting(im, k + 1)
             ELSE IF c.ok THEN RunExecuting(CommandExecute(im, k), k + 1)
             ELSE RunExecuting(SetCmd(im, k, CmdFinish(c)), k + 1))

\* "( !deferredResponse || !i->ok() )" without the second disjunct.
EmitNowUnlessDeferred(deferred, c) == ~deferred

\* "( !deferredResponse || !i->ok() )"
EmitNow(deferred, c) == ~deferred \/ ~c.ok

\* "emit responses for zero or more finished commands and retire them"
RECURSIVE EmitFinished(_, _, _)
EmitFinished(im0, k, deferred) ==
    With(im0, LAMBDA im :
        IF k > Len(im.commands) THEN im
        ELSE LET c == im.commands[k]
                 im1 == IF c.state = "Finished" /\ im.reader = c.id
                        THEN [im EXCEPT !.reader = 0] ELSE im
             IN IF c.state # "Finished" THEN EmitFinished(im1, k + 1, deferred)
                ELSE IF EmitNow(deferred, c)
                THEN LET c2 == EmitResponses(c)
                         stayed == c2.state = "Finished"
                     IN EmitFinished(
                            [im1 EXCEPT
                                !.commands[k] = c2,
                                !.out = IF stayed THEN @
                                        ELSE Append(@, [k |-> "response", id |-> c.id]),
                                !.emitLog = Append(@, [id |-> c.id, ok |-> c.ok,
                                                       called |-> TRUE,
                                                       stayed |-> stayed])],
                            k + 1, deferred \/ stayed)
                ELSE EmitFinished(
                         [im1 EXCEPT !.emitLog = Append(@, [id |-> c.id, ok |-> c.ok,
                                                            called |-> FALSE,
                                                            stayed |-> TRUE])],
                         k + 1, deferred))

\* The first command in one of the states, 0 if there is none.
FirstIn(im, states) ==
    LET ks == {k \in DOMAIN im.commands : im.commands[k].state \in states}
    IN IF ks = {} THEN 0 ELSE Min(ks)

\* The leading command: the first one Executing or Finished, else the oldest
\* one Unparsed or Blocked.
Leader(im) ==
    IF FirstIn(im, {"Executing", "Finished"}) # 0
    THEN FirstIn(im, {"Executing", "Finished"})
    ELSE FirstIn(im, {"Unparsed", "Blocked"})

\* The same loop, which passes over Blocked commands as well.
RECURSIVE SkipStartedAndBlocked(_, _)
SkipStartedAndBlocked(im, i) ==
    IF i <= Len(im.commands)
       /\ im.commands[i].state \in {"Executing", "Finished", "Retired", "Blocked"}
    THEN SkipStartedAndBlocked(im, i + 1) ELSE i

\* "while ( i && ( i->state() == Command::Executing || ... Finished ||
\* ... Retired ) ) i++;"
RECURSIVE SkipStarted(_, _)
SkipStarted(im, i) ==
    IF i <= Len(im.commands)
       /\ im.commands[i].state \in {"Executing", "Finished", "Retired"}
    THEN SkipStarted(im, i + 1) ELSE i

\* "g == i || g->group() == i->group()" without the test for group 0.
FollowsInGroupZero(im, g, i) ==
    g = i \/ im.commands[g].group = im.commands[i].group

\* "( g == i || ( g->group() > 0 && g->group() == i->group() ) )"
Follows(im, g, i) ==
    g = i \/ (im.commands[g].group > 0
              /\ im.commands[g].group = im.commands[i].group)

\* "we can parse and execute followers in the same group"
RECURSIVE StartFollowers(_, _, _)
StartFollowers(im0, g, i) ==
    With(im0, LAMBDA im :
        IF \/ i > Len(im.commands)
           \/ im.commands[i].state \notin {"Unparsed", "Blocked"}
           \/ ~Follows(im, g, i)
        THEN im
        ELSE LET c == im.commands[i] IN
             IF ~c.valid THEN StartFollowers(SetCmd(im, i, CmdError(c)), g, i + 1)
             ELSE IF ~c.ok THEN StartFollowers(im, g, i + 1)
             ELSE LET p == IF c.state = "Unparsed" THEN CmdParse(c) ELSE c
                      gg == IF g = i THEN p.group ELSE im.commands[g].group
                  IN IF p.group # gg
                     THEN SetCmd(im, i, IF p.group = CommandUnparsed
                                        THEN [p EXCEPT !.state = "Blocked"] ELSE p)
                     ELSE IF p.ok
                     THEN StartFollowers(
                              CommandExecute(
                                  [im EXCEPT
                                      !.commands[i] = [p EXCEPT !.state = "Executing"],
                                      !.startLog = Append(@, [id |-> p.id,
                                                              group |-> p.group])],
                                  i),
                              g, i + 1)
                     ELSE StartFollowers(SetCmd(im, i, p), g, i + 1))

\* "we may be able to start new commands"
StartCommands(im0) ==
    With(im0, LAMBDA im :
        IF Leader(im) = 0 THEN im
        ELSE StartFollowers(
                 [im EXCEPT !.busyGroups =
                     {im.commands[k].group : k \in
                         {x \in DOMAIN im.commands :
                             im.commands[x].state \in {"Executing", "Finished"}}}],
                 Leader(im), SkipStarted(im, Leader(im))))

\* One turn of "while ( d->runCommandsAgain ) { ... }".
RunPass(im) ==
    StartCommands(EmitFinished(RunExecuting(
        [im EXCEPT !.runCommandsAgain = FALSE, !.asked = FALSE,
                   !.emitLog = <<>>, !.startLog = <<>>, !.busyGroups = {}], 1),
        1, FALSE))

RECURSIVE RunLoop(_, _)
RunLoop(im0, n) ==
    With(im0, LAMBDA im :
        IF ~im.runCommandsAgain THEN im
        ELSE With(RunPass(im), LAMBDA x :
                 RunLoop([x EXCEPT !.further = IF n > 1 THEN @ + 1 ELSE @,
                                   !.owed = IF x.asked THEN @ + 1 ELSE @],
                         n + 1)))

RunCommands(im) ==
    [RunLoop([im EXCEPT !.nested = IF im.runningCommands THEN @ + 1 ELSE @,
                        !.runningCommands = TRUE, !.runCommandsAgain = TRUE,
                        !.further = 0, !.owed = 0], 1)
        EXCEPT !.runningCommands = FALSE, !.asked = FALSE]

\* expireCommands()
ExpireCommands(im0) ==
    With(im0, LAMBDA im :
        [im EXCEPT !.commands =
            SelectSeq(im.commands, LAMBDA c : c.state # "Retired")])

(***************************************************************************)
(* The connection's state and session.  A session is known by a number, 0  *)
(* is the null pointer; ended counts the calls of Session::end().          *)
(***************************************************************************)
MaxSessions == 3
MaxTimeoutLines == 3
MaxEnds == 2

SessionIds == 1..MaxSessions

\* IMAP::setState()
ImapSetState(im, s) == IF s = im.state THEN im ELSE [im EXCEPT !.state = s]

\* Session::end() of session x
SessionEnd(im, x) == [im EXCEPT !.ended[x] = @ + 1]

\* beginSession() without "d->session->end()".
BeginSessionKeepsOld(im, s) ==
    IF im.session = s THEN im
    ELSE ImapSetState([im EXCEPT !.session = s], "Selected")

\* IMAP::beginSession( s )
BeginSession(im, s) ==
    IF im.session = s THEN im
    ELSE ImapSetState(
             [(IF im.session # 0 THEN SessionEnd(im, im.session) ELSE im)
                 EXCEPT !.session = s],
             "Selected")

\* IMAP::endSession()
EndSession(im) ==
    IF im.session = 0 THEN im
    ELSE SessionEnd([ImapSetState(im, "Authenticated") EXCEPT !.session = 0],
                    im.session)

\* IMAP::setUser()
SetUser(im) == ImapSetState(im, "Authenticated")

\* react( Timeout ), react( Close ), react( Shutdown ): "if ( d->session )
\* d->session->end();".
ReactEnds(im) == IF im.session # 0 THEN SessionEnd(im, im.session) ELSE im

\* IMAP::idle(): no command but Retired ones and Executing IDLE commands.
ImapIdle(im) ==
    \A k \in DOMAIN im.commands :
        \/ im.commands[k].state = "Retired"
        \/ im.commands[k].state = "Executing" /\ im.commands[k].name = "idle"

\* The timeouts of IMAP::IMAP() and IMAP::react(), in seconds.
ConstructorTimeout == 120
LoginTimeout == 120
IdleTimeout == 10800
InactiveTimeout == 1800

\* Connection::setTimeoutAfter(); rearmed changes with every call.
SetTimeoutAfter(im, n) == [im EXCEPT !.timeout = n, !.rearmed = ~@]

\* The end of react( e ): "if ( timeout() == 0 || ( e == Read && state() !=
\* NotAuthenticated ) )"; read says that e is Read.
Rearm(im, read) ==
    IF im.timeout = 0 \/ (read /\ im.state # "NotAuthenticated")
    THEN CASE im.state = "NotAuthenticated" -> SetTimeoutAfter(im, LoginTimeout)
           [] im.state \in {"Authenticated", "Selected"} ->
                  IF ImapIdle(im) THEN SetTimeoutAfter(im, IdleTimeout)
                  ELSE SetTimeoutAfter(im, InactiveTimeout)
           [] OTHER -> im
    ELSE im

\* The ghost fields: which function was called last, and with what.
Called(im, op, arg) == [im EXCEPT !.op = op, !.arg = arg]

(***************************************************************************)
(* The connection's events.                                                *)
(***************************************************************************)
InitImap(maxInput) ==
    [rbuf |-> <<>>, str |-> <<>>, readingLiteral |-> FALSE, literalSize |-> 0,
     reader |-> 0, commands |-> <<>>, nextId |-> 1, out |-> <<>>,
     input |-> <<>>, maxInput |-> maxInput, lines |-> <<>>,
     emitLog |-> <<>>, startLog |-> <<>>, busyGroups |-> {},
     state |-> "NotAuthenticated", session |-> 0,
     ended |-> [x \in SessionIds |-> 0], op |-> "none", arg |-> 0,
     timeout |-> ConstructorTimeout, rearmed |-> FALSE, reads |-> 0,
     runningCommands |-> FALSE, runCommandsAgain |-> FALSE, asked |-> FALSE,
     further |-> 0, owed |-> 0, nested |-> 0]

\* react( Read ): the bytes of chunk have arrived in the read buffer; at
\* most 32768 bytes arrive in all.
ReactRead(chunk, sc) ==
    /\ Len(imap.input) + Len(chunk) <= imap.maxInput
    /\ imap' = Rearm(ExpireCommands(RunCommands(Parse(
                   [imap EXCEPT !.rbuf = @ \o chunk, !.input = @ \o chunk], sc))),
                   TRUE)
    /\ UNCHANGED <<injVars, pool, smtp>>

\* The database result that the command with this id waits for arrives, and
\* the commands are run.
QueryDone(id) ==
    /\ \E k \in DOMAIN imap.commands :
          /\ imap.commands[k].id = id
          /\ imap.commands[k].state = "Executing"
          /\ imap.commands[k].needsDb /\ ~imap.commands[k].ready
          /\ imap.commands[k].reserves => imap.commands[k].mech = "Authenticating"
          /\ imap' = RunCommands([imap EXCEPT !.commands[k].ready = TRUE])
    /\ UNCHANGED <<injVars, pool, smtp>>

\* unblockCommands() outside of runCommands().
UnblockCommands ==
    /\ imap' = ImapUnblockCommands(imap)
    /\ UNCHANGED <<injVars, pool, smtp>>

PlainScript ==
    [known |-> TRUE, group |-> 0, valid |-> TRUE, parseErr |-> FALSE,
     parseGroup |-> 0, needsDb |-> FALSE, execErr |-> FALSE, defer |-> 0,
     reserves |-> FALSE, name |-> "noop", unblocks |-> FALSE]

GroupScript(g, needsDb, defer) ==
    [PlainScript EXCEPT !.group = g, !.parseGroup = g, !.needsDb = needsDb,
                        !.defer = defer]

\* The commands that arrive: of groups 0, 1 and 2, answering at once or
\* after a database query, with responses deferred or not; not valid in
\* the connection's state; with a syntax error; changing group when
\* parsed; failing; reserving the input; unknown.
CmdScripts ==
    {GroupScript(1, d, k) : d \in BOOLEAN, k \in {0, 2}}
    \cup {GroupScript(g, d, 0) : g \in {0, 2}, d \in BOOLEAN}
    \cup {[GroupScript(1, FALSE, 0) EXCEPT !.valid = FALSE],
          [GroupScript(1, FALSE, 0) EXCEPT !.parseErr = TRUE],
          [GroupScript(1, FALSE, 0) EXCEPT !.parseGroup = 2],
          [GroupScript(1, FALSE, 0) EXCEPT !.parseGroup = 0],
          [GroupScript(1, TRUE, 0) EXCEPT !.execErr = TRUE],
          [GroupScript(1, FALSE, 0) EXCEPT !.execErr = TRUE],
          [GroupScript(0, TRUE, 0) EXCEPT !.reserves = TRUE],
          [PlainScript EXCEPT !.known = FALSE]}

CmdLines == {<<"a", CRLF>>, <<"*", CRLF>>}

ParseBytes == {"{", "}", "+", "2", CRLF}

ChunkLengths == {1, 2}

ParseChunks == UNION {[1..n -> ParseBytes] : n \in ChunkLengths}

NoInjectors ==
    /\ live = {}
    /\ inj = [i \in Injectors |-> NewInjector(TRUE, <<1>>, <<0>>, "none", "none", 0)]
    /\ db = InitDb
    /\ sessions = [m \in Mailboxes |-> {}]
    /\ mailbox = InitMailbox

\* A connection that receives arbitrary bytes in arbitrary pieces.
InitParse == NoInjectors /\ imap = InitImap(MaxInput) /\ pool = NoPool
             /\ smtp = NoSmtp

NextParse == \E chunk \in ParseChunks : ReactRead(chunk, PlainScript)

SpecParse == InitParse /\ [][NextParse]_vars

\* A login has succeeded: the handler calls setUser().
LoginSucceeds ==
    /\ imap.state = "NotAuthenticated"
    /\ imap' = SetUser(Called(imap, "setUser", 0))
    /\ UNCHANGED <<injVars, pool, smtp>>

\* A handler calls beginSession( s ): the session it has made for the
\* mailbox it selects, or the one the connection has.
CallBeginSession(s) ==
    /\ imap.state \in {"Authenticated", "Selected"}
    /\ imap.session # 0 => imap.ended[imap.session] < MaxEnds
    /\ imap' = BeginSession(Called(imap, "beginSession", s), s)
    /\ UNCHANGED <<injVars, pool, smtp>>

\* A handler calls endSession().
CallEndSession ==
    /\ imap.session # 0 => imap.ended[imap.session] < MaxEnds
    /\ imap' = EndSession(Called(imap, "endSession", 0))
    /\ UNCHANGED <<injVars, pool, smtp>>

\* LOGOUT: the handler ends the session and sets state Logout.
CallLogout ==
    /\ imap.state # "Logout"
    /\ imap.session # 0 => imap.ended[imap.session] < MaxEnds
    /\ imap' = ImapSetState(EndSession(Called(imap, "logout", 0)), "Logout")
    /\ UNCHANGED <<injVars, pool, smtp>>

\* react( e ) for a timeout, a close or a shutdown.  The event loop has
\* cleared the timeout that has expired.
EndEvents == {"Timeout", "Close", "Shutdown"}

ReactEnd(e) ==
    /\ imap.session # 0 => imap.ended[imap.session] < MaxEnds
    /\ imap' = Rearm(ExpireCommands(RunCommands(ReactEnds(
                   [Called(imap, "react", 0) EXCEPT
                       !.timeout = IF e = "Timeout" THEN 0 ELSE @]))),
                   FALSE)
    /\ UNCHANGED <<injVars, pool, smtp>>

InitSession == NoInjectors /\ imap = InitImap(0) /\ pool = NoPool
               /\ smtp = NoSmtp

NextSession ==
    \/ LoginSucceeds
    \/ \E s \in SessionIds : CallBeginSession(s)
    \/ CallEndSession
    \/ CallLogout
    \/ \E e \in EndEvents : ReactEnd(e)

SpecSession == InitSession /\ [][NextSession]_vars

\* A connection whose client logs in, selects mailboxes and sends commands
\* that end at once, commands that wait for the database and IDLE
\* commands, which are Executing until the client ends them.
IdleScript == [GroupScript(0, TRUE, 0) EXCEPT !.name = "idle"]

TimeoutScripts == {PlainScript, GroupScript(0, TRUE, 0), GroupScript(2, TRUE, 0),
                   IdleScript}

InitTimeout == NoInjectors /\ imap = InitImap(2 * MaxTimeoutLines)
               /\ pool = NoPool /\ smtp = NoSmtp

NextTimeout ==
    \/ \E sc \in TimeoutScripts : ReactRead(<<"a", CRLF>>, sc)
    \/ \E id \in 1..MaxTimeoutLines : QueryDone(id)
    \/ LoginSucceeds
    \/ CallBeginSession(1)
    \/ CallLogout
    \/ \E e \in EndEvents : ReactEnd(e)

SpecTimeout == InitTimeout /\ [][NextTimeout]_vars

\* A connection that receives whole lines, each starting a command unless
\* a command has reserved the input.
InitCmd == NoInjectors /\ imap = InitImap(2 * MaxLines) /\ pool = NoPool
           /\ smtp = NoSmtp

NextCmd ==
    \/ \E line \in CmdLines, sc \in CmdScripts : ReactRead(line, sc)
    \/ \E id \in 1..MaxLines : QueryDone(id)
    \/ UnblockCommands

SpecCmd == InitCmd /\ [][NextCmd]_vars

\* The same connection with commands some of which call unblockCommands()
\* when they are done: of groups 0, 1 and 2, answering at once or after a
\* database query; with deferred responses; not valid in the connection's
\* state; with a syntax error; changing group when parsed.
PassScripts ==
    {[GroupScript(g, d, 0) EXCEPT !.unblocks = u] :
        g \in {1, 2}, d \in BOOLEAN, u \in BOOLEAN}
    \cup {GroupScript(0, TRUE, 0), GroupScript(1, FALSE, 2),
          [GroupScript(1, FALSE, 0) EXCEPT !.valid = FALSE],
          [GroupScript(1, FALSE, 0) EXCEPT !.parseErr = TRUE],
          [GroupScript(1, FALSE, 0) EXCEPT !.parseGroup = 2],
          [GroupScript(1, FALSE, 0) EXCEPT !.parseGroup = 0]}

NextPasses ==
    \/ \E sc \in PassScripts : ReactRead(<<"a", CRLF>>, sc)
    \/ \E id \in 1..MaxLines : QueryDone(id)
    \/ UnblockCommands

SpecPasses == InitCmd /\ [][NextPasses]_vars

(***************************************************************************)
(* Properties of the IMAP parser.                                          *)
(***************************************************************************)
\* The literal specifications a line ends with: "{" digits "}" or
\* "{" digits "+}", given by the position of the brace and the plus.
LiteralSpecs(line) ==
    {sp \in [open : DOMAIN line, plus : BOOLEAN] :
        LET last == Len(line) - (IF sp.plus THEN 2 ELSE 1) IN
        /\ line[Len(line)] = "}"
        /\ line[sp.open] = "{"
        /\ sp.open < last
        /\ \A k \in (sp.open + 1)..last : IsDigit(line[k])
        /\ sp.plus => line[Len(line) - 1] = "+"}

\* What all the bytes received so far amount to when they are framed in
\* one go: the complete commands, the number of continuation requests, the
\* unfinished command, whether a literal is awaited, and the bytes that
\* belong to nothing yet.
RECURSIVE Framing(_, _, _, _)
Framing(rest, str, cmds, conts) ==
    LET ends == {k \in DOMAIN rest : rest[k] = CRLF} IN
    IF ends = {}
    THEN [lines |-> cmds, conts |-> conts, str |-> str, waiting |-> FALSE,
          rbuf |-> rest]
    ELSE LET e == Min(ends)
             line == SubSeq(rest, 1, e - 1)
             after == SubSeq(rest, e + 1, Len(rest))
             specs == LiteralSpecs(line)
         IN IF specs = {}
            THEN Framing(after, <<>>, Append(cmds, str \o line), conts)
            ELSE LET sp == CHOOSE x \in specs : TRUE
                     n == Number(SubSeq(line, sp.open + 1,
                                        Len(line) - (IF sp.plus THEN 2 ELSE 1)))
                     asked == conts + (IF sp.plus THEN 0 ELSE 1)
                     sofar == str \o line \o <<CRLF>>
                 IN IF Len(after) < n
                    THEN [lines |-> cmds, conts |-> asked, str |-> sofar,
                          waiting |-> TRUE, rbuf |-> after]
                    ELSE Framing(SubSeq(after, n + 1, Len(after)),
                                 sofar \o SubSeq(after, 1, n), cmds, asked)

Continuations(out) ==
    Cardinality({k \in DOMAIN out : out[k].k = "reading literal"})

ResponsesInOrderErrorsAlways ==
    \A b \in DOMAIN imap.emitLog :
        /\ \A a \in 1..(b - 1) :
              /\ imap.emitLog[a].id < imap.emitLog[b].id
              /\ (imap.emitLog[a].called /\ imap.emitLog[a].stayed
                  /\ imap.emitLog[b].ok) => ~imap.emitLog[b].called
        /\ ~imap.emitLog[b].ok => imap.emitLog[b].called /\ ~imap.emitLog[b].stayed
        /\ (\A a \in 1..(b - 1) : ~imap.emitLog[a].stayed) => imap.emitLog[b].called

\* A pass in which the first command's response is deferred, the second
\* command's error is sent and the third command's response is held back.
ResponsesInOrderErrorsAlwaysWitness ==
    /\ Len(imap.emitLog) = 3
    /\ imap.emitLog[1].ok /\ imap.emitLog[1].called /\ imap.emitLog[1].stayed
    /\ ~imap.emitLog[2].ok /\ imap.emitLog[2].called
    /\ imap.emitLog[3].ok /\ ~imap.emitLog[3].called

ExecutingCommands ==
    {k \in DOMAIN imap.commands : imap.commands[k].state = "Executing"}

\* C8: the commands that are Executing after a pass of runCommands() all
\* have the same group, which is greater than 0 when there are several;
\* and a command that the pass moved to Executing has the group of every
\* command that was Executing or Finished when the pass looked for
\* commands to start.
OneGroupExecutes ==
    /\ \A a, b \in ExecutingCommands :
          imap.commands[a].group = imap.commands[b].group
    /\ \A a, b \in ExecutingCommands :
          a # b => imap.commands[a].group > 0
    /\ \A s \in DOMAIN imap.startLog :
          \A g \in imap.busyGroups : g = imap.startLog[s].group

\* Two commands of group 1 are Executing, and a command of group 2 that
\* arrived after them has not been started.
OneGroupExecutesWitness ==
    /\ Len(imap.commands) = 3
    /\ imap.commands[1].state = "Executing" /\ imap.commands[1].group = 1
    /\ imap.commands[2].state = "Executing" /\ imap.commands[2].group = 1
    /\ imap.commands[3].state \in {"Unparsed", "Blocked"}
    /\ imap.commands[3].group = 2
    /\ imap.startLog = <<>>

(***************************************************************************)
(* The pool of database handles (src/db/database.cpp).  Handles are known  *)
(* by their connectionNumber(), queries by a number.  The Postgres and     *)
(* Query classes are not part of the sources at hand: a handle is          *)
(* Connecting or Idle, works on at most one query at a time and is usable  *)
(* when it works on none; it leaves the pool by calling removeHandle().    *)
(***************************************************************************)
MaxQueries == 3        \* queries that are submitted
MaxBackends == 4       \* handles created in all
DbMaxHandles == 2      \* the configured db-max-handles
SetupCap == 4          \* "if ( desired > 4 ) desired = 4;"

Queries == 1..MaxQueries
Backends == 1..MaxBackends
NoHandlesError == "No available database handles."

NewQuery == [state |-> "Inactive", error |-> "", errors |-> 0, notified |-> 0,
             done |-> 0]

\* The statics of database.cpp before setup(), and the configured endpoint.
\* noHandles: the pointer to the list of handles is null.
InitPool(unix, underRoot) ==
    [handles |-> <<>>, noHandles |-> TRUE, queries |-> <<>>, backendNumber |-> 0,
     st |-> [h \in Backends |-> "None"], working |-> [h \in Backends |-> 0],
     q |-> [x \in Queries |-> NewQuery],
     unix |-> unix, underRoot |-> underRoot, disaster |-> FALSE,
     pendingAtEmpty |-> [x \in Queries |-> 0], shutDown |-> 0]

\* newHandle(): the constructor numbers the handle, which is Connecting and
\* adds itself to the pool.
NewHandle(p0) ==
    With(p0, LAMBDA p :
        [p EXCEPT !.backendNumber = @ + 1,
                  !.st[p.backendNumber + 1] = "Connecting",
                  !.handles = Append(@, p.backendNumber + 1)])

RECURSIVE NewHandles(_, _)
NewHandles(p, desired) ==
    IF desired = 0 THEN p ELSE NewHandles(NewHandle(p), desired - 1)

\* Database::setup( desired, login ) with a valid configuration.
DatabaseSetup(p, desired, security) ==
    LET d == IF security /\ p.unix THEN DbMaxHandles ELSE desired
    IN NewHandles([p EXCEPT !.noHandles = FALSE],
                  IF d > SetupCap THEN SetupCap ELSE d)

\* Database::usable() as overridden by the handle.
Usable(p, h) == p.working[h] = 0

\* processQueue(): the handle takes the head of the queue.
ProcessQueue(p0, h) ==
    With(p0, LAMBDA p :
        IF p.queries = <<>> THEN p
        ELSE [p EXCEPT !.queries = Tail(@),
                       !.working[h] = Head(p.queries),
                       !.q[Head(p.queries)].state = "Executing"])

\* Query::setError() and Query::notify() for the head of the queue only.
FailFirstPending(p) ==
    IF p.queries = <<>> THEN p
    ELSE [p EXCEPT !.q[Head(p.queries)] =
             [@ EXCEPT !.state = "Failed", !.error = NoHandlesError,
                       !.errors = @ + 1, !.notified = @ + 1]]

\* "while ( q ) { q->setError( ... ); q->notify(); ++q; }"
FailPending(p) ==
    [p EXCEPT !.q = [x \in Queries |->
        IF \E k \in DOMAIN p.queries : p.queries[k] = x
        THEN [@[x] EXCEPT !.state = "Failed", !.error = NoHandlesError,
                          !.errors = @ + 1, !.notified = @ + 1]
        ELSE @[x]]]

\* removeHandle() that logs the disaster for a socket under File::root().
RemoveHandleUnderRoot(p0, h) ==
    With(p0, LAMBDA p :
        IF p.noHandles THEN p
        ELSE LET left == SelectSeq(p.handles, LAMBDA x : x # h) IN
             IF left # <<>> THEN [p EXCEPT !.handles = left]
             ELSE With(FailPending(
                         [p EXCEPT !.handles = left,
                                   !.pendingAtEmpty = [x \in Queries |->
                                       IF \E k \in DOMAIN p.queries : p.queries[k] = x
                                       THEN @[x] + 1 ELSE @[x]]]),
                       LAMBDA f : [f EXCEPT !.disaster =
                                      @ \/ (f.unix /\ f.underRoot)]))

\* Database::removeHandle( d ); pendingAtEmpty counts for each query how
\* often the pool became empty while the query was in the queue.
RemoveHandle(p0, h) ==
    With(p0, LAMBDA p :
        IF p.noHandles THEN p
        ELSE LET left == SelectSeq(p.handles, LAMBDA x : x # h) IN
             IF left # <<>> THEN [p EXCEPT !.handles = left]
             ELSE With(FailPending(
                         [p EXCEPT !.handles = left,
                                   !.pendingAtEmpty = [x \in Queries |->
                                       IF \E k \in DOMAIN p.queries : p.queries[k] = x
                                       THEN @[x] + 1 ELSE @[x]]]),
                       LAMBDA f : [f EXCEPT !.disaster =
                                      @ \/ (f.unix /\ ~f.underRoot)]))

\* react( Close ) and react( Shutdown ) of a handle: it ends its connection
\* and removes itself from the pool.
HandleEnds(p, h) == RemoveHandle([p EXCEPT !.st[h] = "Closed"], h)

RECURSIVE ShutdownAll(_, _, _)
ShutdownAll(p, hs, k) ==
    IF k > Len(hs) THEN p ELSE ShutdownAll(HandleEnds(p, hs[k]), hs, k + 1)

\* Database::disconnect(); shutDown is the number of handles it shut down.
DatabaseDisconnect(p) ==
    ShutdownAll([p EXCEPT !.handles = <<>>, !.noHandles = TRUE,
                          !.shutDown = Len(p.handles)],
                p.handles, 1)

\* The first loop of runQueue(): every idle handle processes the queue.
RECURSIVE RunIdleHandles(_, _, _)
RunIdleHandles(p0, k, connecting) ==
    With(p0, LAMBDA p :
        IF k > Len(p.handles)
        THEN [pool |-> p, connecting |-> connecting, done |-> FALSE]
        ELSE IF p.st[p.handles[k]] = "Idle" /\ Usable(p, p.handles[k])
        THEN With(ProcessQueue(p, p.handles[k]), LAMBDA p1 :
                 IF p1.queries = <<>>
                 THEN [pool |-> p1, connecting |-> connecting, done |-> TRUE]
                 ELSE RunIdleHandles(p1, k + 1, connecting))
        ELSE IF p.st[p.handles[k]] = "Connecting"
        THEN RunIdleHandles(p, k + 1, connecting + 1)
        ELSE RunIdleHandles(p, k + 1, connecting))

\* runQueue() that makes a new handle whenever queries are left.
RunQueueGrowing(p0, elapsed, recent) ==
    With(RunIdleHandles(p0, 1, 0), LAMBDA r :
        IF r.done THEN r.pool
        ELSE IF ~r.pool.unix \/ r.pool.underRoot
        THEN IF Len(r.pool.handles) >= DbMaxHandles
             THEN IF recent THEN r.pool
                  ELSE NewHandle(HandleEnds(r.pool, Head(r.pool.handles)))
             ELSE NewHandle(r.pool)
        ELSE r.pool)

\* Database::runQueue().  elapsed: db-handle-interval has passed since a
\* handle was created; recent: a query was executed within the interval.
RunQueue(p0, elapsed, recent) ==
    With(RunIdleHandles(p0, 1, 0), LAMBDA r :
        IF r.done THEN r.pool
        ELSE IF /\ \/ Len(r.pool.handles) = 0
                   \/ elapsed
                   \/ Head(r.pool.queries) = Head(p0.queries) /\ r.connecting = 0
                /\ ~r.pool.unix \/ r.pool.underRoot
        THEN IF Len(r.pool.handles) >= DbMaxHandles
             THEN IF recent THEN r.pool
                  ELSE NewHandle(HandleEnds(r.pool, Head(r.pool.handles)))
             ELSE NewHandle(r.pool)
        ELSE r.pool)

\* Database::submit( Query * )
DatabaseSubmit(p, x, elapsed, recent) ==
    RunQueue([p EXCEPT !.queries = Append(@, x), !.q[x].state = "Submitted"],
             elapsed, recent)

InPool(h) ==
    /\ ~pool.noHandles
    /\ \E k \in DOMAIN pool.handles : pool.handles[k] = h

\* main() or the installer calls Database::setup().
PoolSetup(desired, security) ==
    /\ pool.noHandles
    /\ pool' = DatabaseSetup(pool, desired, security)
    /\ pool'.backendNumber <= MaxBackends
    /\ UNCHANGED <<injVars, imap, smtp>>

\* Some part of the server submits a query.
Submit(x, elapsed, recent) ==
    /\ ~pool.noHandles
    /\ pool.q[x].state = "Inactive"
    /\ pool' = DatabaseSubmit(pool, x, elapsed, recent)
    /\ pool'.backendNumber <= MaxBackends
    /\ UNCHANGED <<injVars, imap, smtp>>

\* A handle has logged in to the server: it is Idle and processes the queue.
HandleConnected(h) ==
    /\ InPool(h)
    /\ pool.st[h] = "Connecting"
    /\ pool' = ProcessQueue([pool EXCEPT !.st[h] = "Idle"], h)
    /\ UNCHANGED <<injVars, imap, smtp>>

\* The server has answered the query a handle works on: the query is
\* Completed and notified, and the handle processes the queue.
QueryCompleted(h) ==
    /\ InPool(h)
    /\ pool.working[h] # 0
    /\ pool' = ProcessQueue(
                   [pool EXCEPT !.working[h] = 0,
                                !.q[pool.working[h]] =
                                    [@ EXCEPT !.state = "Completed",
                                              !.notified = @ + 1,
                                              !.done = @ + 1]], h)
    /\ UNCHANGED <<injVars, imap, smtp>>

\* A handle loses its connection or is closed.
HandleClosed(h) ==
    /\ InPool(h)
    /\ pool' = HandleEnds(pool, h)
    /\ UNCHANGED <<injVars, imap, smtp>>

\* The installer calls Database::disconnect().
Disconnect ==
    /\ ~pool.noHandles
    /\ pool' = DatabaseDisconnect(pool)
    /\ UNCHANGED <<injVars, imap, smtp>>

SetupDesired == {1, 3}

InitPools ==
    /\ NoInjectors
    /\ imap = NoImap
    /\ smtp = NoSmtp
    /\ \E unix, underRoot \in BOOLEAN : pool = InitPool(unix, underRoot)

NextPool ==
    \/ \E desired \in SetupDesired, security \in BOOLEAN : PoolSetup(desired, security)
    \/ \E x \in Queries, elapsed, recent \in BOOLEAN : Submit(x, elapsed, recent)
    \/ \E h \in Backends : HandleConnected(h)
    \/ \E h \in Backends : QueryCompleted(h)
    \/ \E h \in Backends : HandleClosed(h)
    \/ Disconnect

SpecPool == InitPools /\ [][NextPool]_vars

(***************************************************************************)
(* Properties of the pool of database handles.                             *)
(***************************************************************************)
\* C9: whenever the removal of a handle has left the pool empty, each query
\* that was in the queue then has been given the error "No available
\* database handles." and has been notified, once for each such occasion.
EmptyPoolFailsPending ==
    \A x \in Queries :
        /\ pool.q[x].errors = pool.pendingAtEmpty[x]
        /\ pool.q[x].notified = pool.pendingAtEmpty[x] + pool.q[x].done
        /\ pool.q[x].errors > 0 => pool.q[x].error = NoHandlesError

\* The only handle goes away while two queries wait for it: each of them
\* has failed and has been notified once.
EmptyPoolFailsPendingWitness ==
    /\ ~pool.noHandles /\ pool.handles = <<>>
    /\ Len(pool.queries) = 2
    /\ \A k \in DOMAIN pool.queries :
          /\ pool.q[pool.queries[k]].state = "Failed"
          /\ pool.q[pool.queries[k]].error = NoHandlesError
          /\ pool.q[pool.queries[k]].notified = 1

\* C10: once disconnect() has shut down all the handles of the pool, every
\* query that is still in the queue has failed with "No available database
\* handles." and has been notified.
DisconnectFailsPending ==
    (pool.shutDown > 0 /\ pool.noHandles) =>
        \A k \in DOMAIN pool.queries :
            /\ pool.q[pool.queries[k]].state = "Failed"
            /\ pool.q[pool.queries[k]].error = NoHandlesError
            /\ pool.q[pool.queries[k]].notified > 0

\* C11: the pool never holds more handles than db-max-handles.
HandlesWithinMax == Len(pool.handles) <= DbMaxHandles

(***************************************************************************)
(* The SMTP and LMTP server (src/smtpd/smtp.cpp).  A line is known by its  *)
(* verb and its argument; a recipient is known by the name of its address. *)
(* User, Address and Injector are seen from the connection only: a lookup  *)
(* is answered later, an injector is done later or at once.                *)
(***************************************************************************)
MaxMessages == 2       \* injections started on the connection
MaxLookups == 2        \* recipient lookups started on the connection
MaxBodyLines == 1      \* lines of a message body other than the final dot
MaxLineLen == 2        \* characters of a line of a body before its end

SmtpUsers == {"a", "b"}                     \* the addresses that name a user
MailArgs == {"<>", "s", "bad"}              \* null sender, an address, bad syntax
RcptArgs == {"a", "b", "u", "inv", "bad"}   \* users, no user, invalid, bad syntax
Messages == 1..MaxMessages

CR == "\r"
LF == "\n"

NoMessage ==
    [status |-> "none", rcpts |-> <<>>, report |-> <<>>, body |-> <<>>,
     lines |-> <<>>]

\* SMTPData after the constructor has sent the banner.  body is a sequence
\* of characters.  msgs, nlookups, greeted, verb, arg and sent record what
\* happened; lines records the lines received since the last 354, without
\* their line ends.
InitSmtp(lmtp) ==
    [lmtp |-> lmtp, state |-> "Initial", from |-> "none", to |-> <<>>,
     body |-> <<>>, lines |-> <<>>, code |-> 0, response |-> <<>>,
     protocol |-> "smtp",
     injector |-> 0, lookups |-> <<>>, closing |-> FALSE,
     msgs |-> [m \in Messages |-> NoMessage], nmsgs |-> 0, nlookups |-> 0,
     greeted |-> FALSE, verb |-> "banner", arg |-> "", sent |-> <<>>]

\* respond( c, s )
Respond(s, c, text) ==
    [s EXCEPT !.code = IF c # 0 THEN c ELSE @, !.response = Append(@, text)]

\* sendResponses()
SendResponses(s0) ==
    With(IF s0.code = 0 THEN Respond(s0, 250, "OK") ELSE s0, LAMBDA s :
        [s EXCEPT !.sent = Append(@, [code |-> s.code, lines |-> s.response]),
                  !.code = 0, !.response = <<>>])

\* SMTP::helo() without the test of the state.
SmtpHeloAnywhere(s) ==
    [Respond(s, 250, "hostname") EXCEPT !.state = "MailFrom", !.greeted = TRUE]

\* SMTP::helo()
SmtpHelo(s) ==
    IF s.state # "Initial" /\ s.state # "MailFrom"
    THEN Respond(s, 503, "HELO permitted initially only")
    ELSE [Respond(s, 250, "hostname") EXCEPT !.state = "MailFrom",
                                             !.greeted = TRUE]

\* SMTP::ehlo()
SmtpEhlo(s) ==
    IF s.state # "Initial" /\ s.state # "MailFrom"
    THEN Respond(s, 503, "HELO permitted initially only")
    ELSE [Respond(Respond(s, 250, "hostname"), 250, "DSN") EXCEPT
             !.state = "MailFrom", !.protocol = "esmtp", !.greeted = TRUE]

\* SMTP::lhlo()
SmtpLhlo(s) == Respond(s, 500, "You seem to be speaking LMTP, not SMTP")

\* LMTP::helo() and LMTP::ehlo()
LmtpHelo(s) == Respond(s, 500, "This is LMTP, not SMTP. Please use LHLO.")

\* LMTP::lhlo()
LmtpLhlo(s) == [SmtpEhlo(s) EXCEPT !.protocol = "lmtp"]

\* The virtual functions helo(), ehlo() and lhlo().
Helo(s) == IF s.lmtp THEN LmtpHelo(s) ELSE SmtpHelo(s)

Ehlo(s) == IF s.lmtp THEN LmtpHelo(s) ELSE SmtpEhlo(s)

Lhlo(s) == IF s.lmtp THEN LmtpLhlo(s) ELSE SmtpLhlo(s)

\* SMTP::rset()
Rset(s) == Respond([s EXCEPT !.state = "MailFrom"], 250, "State reset")

\* SMTP::mail(); address() answers 503 for an argument it cannot parse.
Mail(s, arg) ==
    IF s.state # "MailFrom" THEN Respond(s, 503, "Bad sequence of commands")
    ELSE IF arg = "<>"
    THEN [Respond(s, 250, "Accepted message from mailer-daemon")
             EXCEPT !.state = "RcptTo"]
    ELSE IF arg = "bad"
    THEN SendResponses([Respond(s, 503, "address") EXCEPT !.from = "none",
                                                          !.to = <<>>])
    ELSE SendResponses([Respond(s, 250, "Accepted message from")
                           EXCEPT !.from = arg, !.state = "RcptTo", !.to = <<>>])

\* SMTP::rcpt(); u->refresh() starts the lookup of the user.
Rcpt(s, arg) ==
    IF s.state # "RcptTo" \/ s.state = "Data"
    THEN Respond(s, 503, "Must specify sender before recipient(s)")
    ELSE IF arg = "bad"
    THEN Respond(Respond(s, 503, "address"), 550, "Unknown address")
    ELSE IF arg = "inv" THEN Respond(s, 550, "Unknown address")
    ELSE [s EXCEPT !.lookups = Append(@, arg), !.nlookups = @ + 1]

\* SMTP::rcptAnswer( u ) for the k-th lookup that is under way.
RcptAnswer(s, k) ==
    LET u == s.lookups[k]
        s1 == [s EXCEPT !.lookups = SubSeq(@, 1, k - 1) \o SubSeq(@, k + 1, Len(@))]
    IN SendResponses(
           IF u \in SmtpUsers
           THEN [Respond(s1, 250, u) EXCEPT !.to = Append(@, u), !.state = "Data"]
           ELSE Respond(s1, 550, u))

\* SMTP::data() without the test of the state.
DataAnywhere(s) ==
    [Respond(s, 354, "Go ahead") EXCEPT !.state = "Body", !.lines = <<>>]

\* SMTP::data()
Data(s) ==
    IF s.state # "Data" THEN Respond(s, 503, "Bad sequence of commands")
    ELSE [Respond(s, 354, "Go ahead") EXCEPT !.state = "Body", !.lines = <<>>]

\* SMTP::reportInjection(); an injector that is not done has not failed.
SmtpReportInjection(s0) ==
    IF s0.state # "Injecting" THEN s0
    ELSE With(SendResponses(
                  IF s0.msgs[s0.injector].status = "failed"
                  THEN Respond([s0 EXCEPT !.state = "MailFrom"], 451, "error")
                  ELSE Respond([s0 EXCEPT !.state = "MailFrom"], 250, "Done")),
              LAMBDA s :
                  [s EXCEPT !.from = "none", !.to = <<>>, !.body = <<>>,
                            !.msgs[s.injector].report =
                                @ \o <<s.sent[Len(s.sent)]>>])

\* "while ( it ) { ... respond( 451 or 250, prefix + ... ); ++it; }"
RECURSIVE RespondEach(_, _)
RespondEach(s, k) ==
    IF k > Len(s.to) THEN s
    ELSE RespondEach(
             Respond(s, IF s.msgs[s.injector].status = "failed" THEN 451 ELSE 250,
                     s.to[k]),
             k + 1)

\* LMTP::reportInjection()
LmtpReportInjection(s0) ==
    IF s0.state # "Injecting" THEN s0
    ELSE With(SendResponses(RespondEach([s0 EXCEPT !.state = "MailFrom"], 1)),
              LAMBDA s :
                  [s EXCEPT !.from = "none", !.to = <<>>, !.body = <<>>,
                            !.msgs[s.injector].report =
                                @ \o <<s.sent[Len(s.sent)]>>])

ReportInjection(s) ==
    IF s.lmtp THEN LmtpReportInjection(s) ELSE SmtpReportInjection(s)

\* SMTP::inject(): a new Injector for the recipients' inboxes is executed;
\* it fails at once if the message is not valid.
Inject(s0, valid) ==
    With([s0 EXCEPT !.state = "Injecting", !.nmsgs = @ + 1,
                    !.injector = s0.nmsgs + 1,
                    !.msgs[s0.nmsgs + 1] =
                        [status |-> IF valid THEN "running" ELSE "failed",
                         rcpts |-> s0.to, report |-> <<>>,
                         body |-> s0.body, lines |-> s0.lines]],
         LAMBDA s : IF valid THEN s ELSE ReportInjection(s))

\* "if ( i > 0 && line[i-1] == 10 ) i--; if ( i > 0 && line[i-1] == 13 ) i--;
\*  line.truncate( i );"
Truncated(line) ==
    With(IF line # <<>> /\ line[Len(line)] = LF
         THEN SubSeq(line, 1, Len(line) - 1) ELSE line,
         LAMBDA l : IF l # <<>> /\ l[Len(l)] = CR
                    THEN SubSeq(l, 1, Len(l) - 1) ELSE l)

\* SMTP::body( line ): line is the line with its line end.
Body(s, line, valid) ==
    With(Truncated(line), LAMBDA l :
        IF Len(l) = 1 /\ l[1] = "." THEN Inject(s, valid)
        ELSE IF l # <<>> /\ l[1] = "."
        THEN [s EXCEPT !.body = @ \o Tail(l) \o <<CR, LF>>]
        ELSE [s EXCEPT !.body = @ \o l \o <<CR, LF>>])

\* SMTP::quit()
Quit(s) == [Respond(s, 221, "Have a nice day.") EXCEPT !.closing = TRUE]

\* An event begins: which it is; nothing has been sent for it yet.
Begin(s, verb, arg) == [s EXCEPT !.verb = verb, !.arg = arg, !.sent = <<>>]

\* SMTP::parse() takes a line for a command unless a body is being read.
LineAllowed == ~smtp.closing /\ smtp.state # "Body"

\* "if ( d->code ) sendResponses();"
Parsed(s) == IF s.code # 0 THEN SendResponses(s) ELSE s

LineHelo ==
    /\ LineAllowed
    /\ smtp' = Parsed(Helo(Begin(smtp, "helo", "")))
    /\ UNCHANGED <<injVars, imap, pool>>

LineEhlo ==
    /\ LineAllowed
    /\ smtp' = Parsed(Ehlo(Begin(smtp, "ehlo", "")))
    /\ UNCHANGED <<injVars, imap, pool>>

LineLhlo ==
    /\ LineAllowed
    /\ smtp' = Parsed(Lhlo(Begin(smtp, "lhlo", "")))
    /\ UNCHANGED <<injVars, imap, pool>>

LineRset ==
    /\ LineAllowed
    /\ smtp' = Parsed(Rset(Begin(smtp, "rset", "")))
    /\ UNCHANGED <<injVars, imap, pool>>

LineMail(arg) ==
    /\ LineAllowed
    /\ smtp' = Parsed(Mail(Begin(smtp, "mail from", arg), arg))
    /\ UNCHANGED <<injVars, imap, pool>>

LineRcpt(arg) ==
    /\ LineAllowed
    /\ smtp' = Parsed(Rcpt(Begin(smtp, "rcpt to", arg), arg))
    /\ smtp'.nlookups <= MaxLookups
    /\ UNCHANGED <<injVars, imap, pool>>

LineData ==
    /\ LineAllowed
    /\ smtp' = Parsed(Data(Begin(smtp, "data", "")))
    /\ UNCHANGED <<injVars, imap, pool>>

\* SMTP::noop()
LineNoop ==
    /\ LineAllowed
    /\ smtp' = Parsed(Respond(Begin(smtp, "noop", ""), 250, "Fine."))
    /\ UNCHANGED <<injVars, imap, pool>>

\* SMTP::help()
LineHelp ==
    /\ LineAllowed
    /\ smtp' = Parsed(Respond(Begin(smtp, "help", ""), 250, "See http://www.oryx.com"))
    /\ UNCHANGED <<injVars, imap, pool>>

LineQuit ==
    /\ LineAllowed
    /\ smtp' = Parsed(Quit(Begin(smtp, "quit", "")))
    /\ UNCHANGED <<injVars, imap, pool>>

\* "else respond( 500, "Unknown command (" + cmd.upper() + ")" );"
LineUnknown ==
    /\ LineAllowed
    /\ smtp' = Parsed(Respond(Begin(smtp, "unknown", ""), 500, "Unknown command"))
    /\ UNCHANGED <<injVars, imap, pool>>

\* SMTP::parse() for a line of the body: text before the line end eol.
LineBody(text, eol, valid) ==
    /\ ~smtp.closing
    /\ smtp.state = "Body"
    /\ IF text = <<".">> THEN smtp.nmsgs < MaxMessages
       ELSE valid /\ Len(smtp.lines) < MaxBodyLines
    /\ LET s == IF text = <<".">> THEN Begin(smtp, ".", "")
                ELSE [Begin(smtp, "text", "") EXCEPT !.lines = Append(@, text)]
       IN smtp' = Parsed(Body(s, text \o eol, valid))
    /\ UNCHANGED <<injVars, imap, pool>>

\* SmtpUserHelper::execute(): a lookup is answered.
UserAnswer(k) ==
    /\ k \in DOMAIN smtp.lookups
    /\ smtp' = RcptAnswer(Begin(smtp, "rcptAnswer", smtp.lookups[k]), k)
    /\ UNCHANGED <<injVars, imap, pool>>

\* SmtpDbClient::execute() of the helper of message m, whose injector is
\* done now.
InjectorDone(m, failed) ==
    /\ smtp.msgs[m].status = "running"
    /\ smtp' = ReportInjection(
                   [Begin(smtp, "injectorDone", "") EXCEPT
                       !.msgs[m].status = IF failed THEN "failed" ELSE "ok"])
    /\ UNCHANGED <<injVars, imap, pool>>

InitSmtps ==
    /\ NoInjectors
    /\ imap = NoImap
    /\ pool = NoPool
    /\ \E lmtp \in BOOLEAN : smtp = InitSmtp(lmtp)

NextSmtp ==
    \/ LineHelo
    \/ LineEhlo
    \/ LineLhlo
    \/ LineRset
    \/ \E arg \in MailArgs : LineMail(arg)
    \/ \E arg \in RcptArgs : LineRcpt(arg)
    \/ LineData
    \/ LineNoop
    \/ LineHelp
    \/ LineQuit
    \/ LineUnknown
    \/ \E text \in {<<".">>, <<"x">>}, valid \in BOOLEAN :
           LineBody(text, <<CR, LF>>, valid)
    \/ \E k \in 1..MaxLookups : UserAnswer(k)
    \/ \E m \in Messages, failed \in BOOLEAN : InjectorDone(m, failed)

SpecSmtp == InitSmtps /\ [][NextSmtp]_vars

\* The bodies of the messages of one SMTP connection: lines of up to
\* MaxLineLen dots and other characters, ended by CR LF or by LF alone.
RECURSIVE Texts(_)
Texts(n) ==
    IF n = 0 THEN {<<>>}
    ELSE Texts(n - 1) \cup
         {Append(t, c) : t \in {u \in Texts(n - 1) : Len(u) = n - 1},
                         c \in {".", "x"}}

LineEnds == {<<CR, LF>>, <<LF>>}

InitBody ==
    /\ NoInjectors
    /\ imap = NoImap
    /\ pool = NoPool
    /\ smtp = InitSmtp(FALSE)

NextBody ==
    \/ LineHelo
    \/ LineRset
    \/ LineMail("s")
    \/ LineRcpt("a")
    \/ LineData
    \/ \E text \in Texts(MaxLineLen), eol \in LineEnds, valid \in BOOLEAN :
           LineBody(text, eol, valid)
    \/ \E k \in 1..MaxLookups : UserAnswer(k)
    \/ \E m \in Messages, failed \in BOOLEAN : InjectorDone(m, failed)

SpecBody == InitBody /\ [][NextBody]_vars

(***************************************************************************)
(* Properties of the SMTP and LMTP server.                                 *)
(***************************************************************************)
SentCodes(s) == [k \in DOMAIN s.sent |-> s.sent[k].code]

\* The event changes neither the state nor the sender nor the recipients
\* and starts no lookup.
SessionUnchanged ==
    /\ smtp'.state = smtp.state
    /\ smtp'.from = smtp.from
    /\ smtp'.to = smtp.to
    /\ smtp'.lookups = smtp.lookups
    /\ smtp'.nlookups = smtp.nlookups

\* C12: on an SMTP connection every message whose body has ended has got
\* no final reply while its injector is at work and exactly one once the
\* injector is done: 250 Done if it succeeded, 451 with the error if not.
OneFinalReply ==
    ~smtp.lmtp =>
        \A m \in Messages :
            /\ smtp.msgs[m].status = "running" => smtp.msgs[m].report = <<>>
            /\ smtp.msgs[m].status = "ok" =>
                  smtp.msgs[m].report = <<[code |-> 250, lines |-> <<"Done">>]>>
            /\ smtp.msgs[m].status = "failed" =>
                  smtp.msgs[m].report = <<[code |-> 451, lines |-> <<"error">>]>>

MailOrRcptOutOfSequence ==
    \/ smtp'.verb = "rcpt to" /\ smtp.state \in {"Initial", "MailFrom"}
    \/ smtp'.verb = "mail from" /\ smtp.state # "MailFrom"

HeloOutOfSequence ==
    smtp'.verb \in {"helo", "ehlo"} /\ smtp.state \notin {"Initial", "MailFrom"}

\* C13, as stated: RCPT TO in state Initial or MailFrom, MAIL FROM in a
\* state other than MailFrom and HELO or EHLO in a state other than Initial
\* or MailFrom are answered 503 and change nothing.
OutOfSequence503 ==
    [][(MailOrRcptOutOfSequence \/ HeloOutOfSequence) =>
           SentCodes(smtp') = <<503>> /\ SessionUnchanged]_vars

\* C13: the same as the statement above, HELO and EHLO on an SMTP connection only; on an
\* LMTP connection they are answered 500 and change nothing.
OutOfSequence503Smtp ==
    [][/\ (MailOrRcptOutOfSequence \/ (HeloOutOfSequence /\ ~smtp.lmtp)) =>
              SentCodes(smtp') = <<503>> /\ SessionUnchanged
       /\ (HeloOutOfSequence /\ smtp.lmtp) =>
              SentCodes(smtp') = <<500>> /\ SessionUnchanged]_vars

\* A HELO that arrived after a recipient had been accepted was answered 503
\* on an SMTP connection.
OutOfSequence503SmtpWitness ==
    /\ ~smtp.lmtp
    /\ smtp.verb = "helo"
    /\ smtp.state = "Data"
    /\ smtp.to # <<>>
    /\ SentCodes(smtp) = <<503>>

EveryValidRcptAccepted ==
    [][/\ (smtp'.verb = "rcpt to" /\ smtp.state \in {"RcptTo", "Data"}
           /\ smtp'.arg \in SmtpUsers) =>
              /\ smtp'.lookups = Append(smtp.lookups, smtp'.arg)
              /\ smtp'.sent = <<>>
       /\ (smtp'.verb = "rcptAnswer" /\ smtp'.arg \in SmtpUsers) =>
              /\ SentCodes(smtp') = <<250>>
              /\ smtp'.to = Append(smtp.to, smtp'.arg)
       /\ (smtp'.verb = "rcpt to" /\ smtp.state \in {"RcptTo", "Data"}
           /\ smtp'.arg \in {"inv", "bad"}) =>
              SentCodes(smtp') = <<550>> /\ smtp'.to = smtp.to
       /\ (smtp'.verb = "rcptAnswer" /\ smtp'.arg \notin SmtpUsers) =>
              SentCodes(smtp') = <<550>> /\ smtp'.to = smtp.to]_vars

\* C16: on an LMTP connection a message whose injector is done has got one
\* response with one line for each recipient accepted for it, the line
\* beginning with the recipient's address, with 250 if the delivery
\* succeeded and 451 if it failed; while the injector is at work nothing
\* has been reported.
LmtpReportsEachRecipient ==
    smtp.lmtp =>
        \A m \in Messages :
            /\ smtp.msgs[m].status = "running" => smtp.msgs[m].report = <<>>
            /\ smtp.msgs[m].status = "ok" =>
                  smtp.msgs[m].report =
                      <<[code |-> 250, lines |-> smtp.msgs[m].rcpts]>>
            /\ smtp.msgs[m].status = "failed" =>
                  smtp.msgs[m].report =
                      <<[code |-> 451, lines |-> smtp.msgs[m].rcpts]>>

\* C17: on an LMTP connection HELO and EHLO are answered 500 and change
\* nothing; a MAIL FROM is accepted only after an LHLO was accepted on an
\* LMTP connection, a HELO or EHLO on an SMTP connection.
NoMailBeforeGreeting ==
    [][/\ (smtp.lmtp /\ smtp'.verb \in {"helo", "ehlo"}) =>
              SentCodes(smtp') = <<500>> /\ SessionUnchanged
       /\ (smtp'.verb = "mail from" /\ smtp'.state = "RcptTo") => smtp.greeted]_vars

\* C18: once execute() has been called for an invalid message the injector
\* has failed and is done, error() is the message's error, the owner has
\* been notified once, and there is no Transaction, no fetcher and no
\* query; apart from the count of calls the injector is as it was created,
\* however often execute() has been called, and the database is untouched.
InvalidMessageFailsAtOnce ==
    \A i \in live :
        (~inj[i].valid /\ inj[i].calls > 0) =>
            /\ InjectorFailed(inj[i])
            /\ InjectorIsDone(inj[i])
            /\ InjectorError(inj[i]) = "message"
            /\ inj[i].ownerCalls = 1
            /\ inj[i].tx = NoTransaction
            /\ inj[i].flags # "known"
            /\ inj[i].annotations # "known"
            /\ inj[i] =
                 [NewInjector(FALSE,
                              [k \in DOMAIN inj[i].mailboxes |->
                                  inj[i].mailboxes[k].mailbox],
                              <<>>,
                              inj[i].flags, inj[i].annotations,
                              inj[i].maxCalls)
                     EXCEPT !.failed = TRUE, !.owner = FALSE,
                            !.ownerCalls = 1, !.calls = inj[i].calls,
                            !.bodyparts =
                                [k \in DOMAIN inj[i].bodyparts |->
                                    [inj[i].bodyparts[k] EXCEPT
                                        !.bid = 0, !.insert = "none",
                                        !.select = "none", !.row = 0]]]
            /\ db = InitDb

\* execute() has been called more than once for an invalid message with a
\* bodypart to store and a flag to create.
InvalidMessageFailsAtOnceWitness ==
    \E i \in live :
        /\ ~inj[i].valid
        /\ inj[i].calls = MaxExecuteCalls
        /\ inj[i].calls > 1
        /\ inj[i].flags = "unknown"
        /\ \E k \in DOMAIN inj[i].bodyparts : inj[i].bodyparts[k].hash # 0

\* The mailboxes injector i injects into.
Targets(i) == {inj[i].mailboxes[k].mailbox : k \in DOMAIN inj[i].mailboxes}

\* The injectors that committed before injector i did.
CommittedBefore(i) ==
    {db.commits[k] : k \in {n \in DOMAIN db.commits : n < CommitPos(i)}}

SessionFollowsState ==
    /\ [](imap.state = "Selected" => imap.session # 0)
    /\ [][/\ imap'.op = "beginSession" =>
              /\ imap'.state = "Selected"
              /\ imap'.session = imap'.arg
              /\ \A x \in SessionIds :
                    imap'.ended[x] =
                        IF x = imap.session /\ x # imap'.arg
                        THEN imap.ended[x] + 1 ELSE imap.ended[x]
          /\ (imap'.op = "endSession" /\ imap.session # 0) =>
              /\ imap'.state = "Authenticated"
              /\ imap'.session = 0
              /\ \A x \in SessionIds :
                    imap'.ended[x] =
                        IF x = imap.session
                        THEN imap.ended[x] + 1 ELSE imap.ended[x]
          /\ (imap'.op = "endSession" /\ imap.session = 0) =>
              /\ imap'.state = imap.state
              /\ imap'.session = 0
              /\ imap'.ended = imap.ended]_vars

\* beginSession(2) has replaced and ended session 1.
SessionFollowsStateWitness ==
    /\ imap.op = "beginSession"
    /\ imap.arg = 2
    /\ imap.state = "Selected"
    /\ imap.session = 2
    /\ imap.ended[1] = 1

(***************************************************************************)
(* Properties of the IMAP connection's timeout.                            *)
(***************************************************************************)
IdleExecuting(im) ==
    \E k \in DOMAIN im.commands :
        im.commands[k].state = "Executing" /\ im.commands[k].name = "idle"

\* C21: whenever react() sets the timeout, it sets 120 s in state
\* NotAuthenticated, 10800 s only while an IDLE command is executing, and
\* 1800 s in state Authenticated or Selected when none is.
TimeoutByState ==
    [][imap'.rearmed # imap.rearmed =>
          /\ imap'.state = "NotAuthenticated" => imap'.timeout = LoginTimeout
          /\ imap'.timeout = IdleTimeout => IdleExecuting(imap')
          /\ (imap'.state \in {"Authenticated", "Selected"}
              /\ ~IdleExecuting(imap')) => imap'.timeout = InactiveTimeout]_vars

(***************************************************************************)
(* Properties of the announcement and of the recent session.               *)
(***************************************************************************)
\* C22: once an injector has announced, the Mailbox object of every target
\* has uidnext >= uid + 1 and nextmodseq >= modseq + 1; and no step lowers
\* the uidnext or the nextmodseq of a Mailbox object.
AnnounceNeverLowers ==
    /\ [](\A i \in live :
             inj[i].announced =>
                 \A k \in DOMAIN inj[i].mailboxes :
                     /\ mailbox[inj[i].mailboxes[k].mailbox].uidnext >=
                            inj[i].mailboxes[k].uid + 1
                     /\ mailbox[inj[i].mailboxes[k].mailbox].nextmodseq >=
                            inj[i].mailboxes[k].ms + 1)
    /\ [][\A m \in Mailboxes :
              /\ mailbox'[m].uidnext >= mailbox[m].uidnext
              /\ mailbox'[m].nextmodseq >= mailbox[m].nextmodseq]_vars

\* Two injections into a mailbox have been announced, the later one first.
AnnounceNeverLowersWitness ==
    \E m \in Mailboxes :
        /\ Len(mailbox[m].log) = 2
        /\ InjectorUid(inj[mailbox[m].log[1]], m) = 2
        /\ InjectorUid(inj[mailbox[m].log[2]], m) = 1
        /\ mailbox[m].uidnext = 3

IncrKinds == {"incrUidnext", "incrUidnextWithRecent"}

\* The UPDATEs of mailbox m (of kind k) that wait in injector i's
\* transaction.
IncrQueries(s, m, kinds) ==
    {n \in DOMAIN s.tx.queue : s.tx.queue[n].k \in kinds /\ s.tx.queue[n].a = m}

\* C28: when the answer of a mailbox's lock query is processed, exactly one
\* UPDATE of that mailbox is enqueued; it increments first_recent, and a
\* session of the mailbox is recorded as its recent session, if and only
\* if the row's uidnext equals its first_recent and a session is open on
\* the mailbox; no other step enqueues an UPDATE.
RecentIffFirstRecent ==
    [][\A i \in live :
          IF inj[i].uf.made /\ inj'[i].uf.li = inj[i].uf.li + 1
          THEN LET k == inj[i].uf.li
                   m == inj[i].mailboxes[k].mailbox
                   row == MailboxRow(i, m)
                   recent == row.uidnext = row.first_recent /\ sessions[m] # {}
               IN /\ Cardinality(IncrQueries(inj'[i], m, IncrKinds)) =
                         Cardinality(IncrQueries(inj[i], m, IncrKinds)) + 1
                  /\ Cardinality(IncrQueries(inj'[i], m, {"incrUidnextWithRecent"})) =
                         Cardinality(IncrQueries(inj[i], m, {"incrUidnextWithRecent"}))
                         + (IF recent THEN 1 ELSE 0)
                  /\ \A x \in Mailboxes \ {m} :
                         Cardinality(IncrQueries(inj'[i], x, IncrKinds)) <=
                             Cardinality(IncrQueries(inj[i], x, IncrKinds))
                  /\ IF recent
                     THEN inj'[i].mailboxes[k].recentIn \in sessions[m]
                     ELSE inj'[i].mailboxes[k].recentIn = 0
          ELSE \A x \in Mailboxes :
                   Cardinality(IncrQueries(inj'[i], x, IncrKinds)) <=
                       Cardinality(IncrQueries(inj[i], x, IncrKinds))]_vars

\* An injector has a recent session in its first mailbox and none in its
\* second, on which a session is open.
RecentIffFirstRecentWitness ==
    \E i \in live :
        /\ Len(inj[i].mailboxes) = 2
        /\ inj[i].uf.li = 3
        /\ inj[i].mailboxes[1].recentIn # 0
        /\ inj[i].mailboxes[2].recentIn = 0
        /\ sessions[inj[i].mailboxes[2].mailbox] # {}
        /\ inj[i].mailboxes[2].uid > db.mbox[inj[i].mailboxes[2].mailbox].first_recent

\* C29: when an injector announces, every session open on a target mailbox
\* gets a change that contains the injected message, and the message's UID
\* is added to the recent set of the session recorded for the mailbox and
\* of no other session.
AnnounceReachesSessions ==
    [][\A i \in live :
          (inj'[i].announced /\ ~inj[i].announced) =>
              \A k \in DOMAIN inj[i].mailboxes :
                  LET u == inj[i].mailboxes[k]
                      m == u.mailbox
                  IN \A s \in 1..MaxSessionsPerMailbox :
                        /\ s \in sessions[m] =>
                              \E c \in mailbox'[m].changes :
                                  c.session = s /\ c.by = i /\ i \in c.msgs
                        /\ mailbox'[m].recent[s] =
                              IF s \in sessions[m] /\ s = u.recentIn
                              THEN mailbox[m].recent[s] \cup {u.uid}
                              ELSE mailbox[m].recent[s]]_vars


\* A line of a body without the one dot it may start with.
Unstuffed(l) == IF l # <<>> /\ l[1] = "." THEN Tail(l) ELSE l

\* The lines without their first dots, each ended by CR LF.
RECURSIVE Unstuffing(_)
Unstuffing(lines) ==
    IF lines = <<>> THEN <<>>
    ELSE Unstuffed(Head(lines)) \o <<CR, LF>> \o Unstuffing(Tail(lines))

\* C23: the body gathered for a message is the lines received after the
\* 354, each without the one dot it may start with and each ended by CR LF,
\* while the body is read and when the injection starts; a line that is
\* exactly "." ends the body and starts one injection, no other line of a
\* body starts one.
BodyIsUnstuffedLines ==
    /\ [](/\ smtp.state = "Body" => smtp.body = Unstuffing(smtp.lines)
          /\ \A m \in Messages :
                 smtp.msgs[m].status # "none" =>
                     smtp.msgs[m].body = Unstuffing(smtp.msgs[m].lines))
    /\ [][
           /\ (smtp.state = "Body" /\ smtp'.verb = ".") =>
                  smtp'.nmsgs = smtp.nmsgs + 1 /\ smtp'.state # "Body"
           /\ (smtp.state = "Body" /\ smtp'.verb = "text") =>
                  smtp'.nmsgs = smtp.nmsgs /\ smtp'.state = "Body"
         ]_vars


\* The command that has reserved the input is in the list and Executing.
ReaderExecuting(im) ==
    \E k \in DOMAIN im.commands :
        im.commands[k].id = im.reader /\ im.commands[k].state = "Executing"

\* C24: a command that has called reserve() holds the reservation as long
\* as it is Executing, and nobody holds it once that command is Finished;
\* while the input is reserved a line that arrives is taken by the
\* command's read() and starts no command.
ReservedInputIsRead ==
    /\ [](/\ imap.reader # 0 => ReaderExecuting(imap)
          /\ \A k \in DOMAIN imap.commands :
                 (/\ imap.commands[k].state = "Executing"
                  /\ imap.commands[k].mech \in {"AwaitingResponse", "Authenticating"})
                     => imap.reader = imap.commands[k].id)
    /\ [][(imap.reader # 0 /\ imap'.input # imap.input) =>
              /\ imap'.reads = imap.reads + 1
              /\ imap'.lines = imap.lines
              /\ imap'.nextId = imap.nextId]_vars

\* An AUTHENTICATE has reserved the input, has read a line, has asked the
\* database and has succeeded.
ReservedInputIsReadWitness ==
    /\ imap.reads > 0
    /\ imap.reader = 0
    /\ \E k \in DOMAIN imap.commands :
           /\ imap.commands[k].reserves
           /\ imap.commands[k].mech = "done"
           /\ imap.commands[k].ok
           /\ imap.commands[k].state = "Retired"


\* The state is one of those from a to b in the order of Injector::State.
StateWithin(s, a, b) == Rank(s.state) \in Rank(a)..Rank(b)

\* C25: from one return of execute() to the next the state of an injector
\* never moves backwards in the order Inactive ... Done; it is in
\* SelectingUids or a later linking state only when every bodypart lookup
\* is done, in InsertingMessages or later only when every lock select has
\* returned, in LinkingFields or later only when the field-name lookup is
\* done, in LinkingFlags or later only when the address lookup is done, and
\* in Done only when the transaction is done.
StateOnlyForwards ==
    /\ [][\A i \in Injectors : Rank(inj'[i].state) >= Rank(inj[i].state)]_vars
    /\ [](\A i \in Injectors :
            /\ StateWithin(inj[i], "SelectingUids", "LinkingAddresses") =>
                   inj[i].bf.done
            /\ StateWithin(inj[i], "InsertingMessages", "LinkingAddresses") =>
                   inj[i].uf.made /\ inj[i].uf.queries = <<>>
            /\ StateWithin(inj[i], "LinkingFields", "LinkingAddresses") =>
                   inj[i].fieldLookup = "done"
            /\ StateWithin(inj[i], "LinkingFlags", "LinkingAddresses") =>
                   inj[i].addressLookup = "done"
            /\ inj[i].state = "Done" => inj[i].tx.done)

\* An injector has gone through all the states and has committed.
StateOnlyForwardsWitness ==
    \E i \in Injectors :
        /\ inj[i].state = "Done"
        /\ ~inj[i].failed
        /\ inj[i].tx.committed
        /\ inj[i].uf.made
        /\ inj[i].uf.queries = <<>>


\* The statements in the queue that insert rows of the message.
RowInsertions(s) == SelectSeq(s.tx.queue, LAMBDA q : q.k \in CopyKinds)

\* A step in which execute() of injector i runs: called by the owner, by
\* the creator of a flag or of an annotation name, or by a query of the
\* transaction.
ExecuteRuns(i) ==
    \/ CallExecute(i)
    \/ FlagCreated(i)
    \/ AnnotationNameCreated(i)
    \/ DbCopy(i)
    \/ DbLookup(i)

\* C26: when execute() runs in a state from SelectingUids to
\* LinkingAddresses and the transaction has failed, the call leaves the
\* injector in AwaitingCompletion or Done and enqueues no statement that
\* inserts rows; a transaction that has failed after the bodyparts were
\* inserted is never committed and leaves no row, and its injector ends
\* with failed() true and the transaction's error.
FailedTransactionStops ==
    /\ [][\A i \in Injectors :
             (/\ inj'[i].tx.failed
              /\ StateWithin(inj[i], "SelectingUids", "LinkingAddresses")
              /\ ExecuteRuns(i)) =>
                 /\ StateWithin(inj'[i], "AwaitingCompletion", "Done")
                 /\ Len(RowInsertions(inj'[i])) <= Len(RowInsertions(inj[i]))]_vars
    /\ [](\A i \in Injectors :
            (inj[i].tx.made /\ inj[i].tx.failed /\ ~inj[i].bf.failed) =>
                /\ ~inj[i].tx.committed
                /\ \A r \in db.messages : r.by # i
                /\ inj[i].state = "Done" =>
                       /\ InjectorFailed(inj[i])
                       /\ InjectorError(inj[i]) = "transaction"
                       /\ db.tx[i] = NoTx)


\* The injector has left InsertingBodyparts and its BidFetcher has not
\* failed.
BodypartsInserted(s) ==
    Rank(s.state) >= Rank("SelectingUids") /\ s.bf.done /\ ~s.bf.failed

\* The content types a part may have.
ContentTypes ==
    {<<>>, <<"text", "plain">>, <<"text", "html">>, <<"image", "png">>,
     <<"multipart", "mixed">>, <<"multipart", "signed">>,
     <<"message", "rfc822">>}

\* C27, as stated: once an injector has left InsertingBodyparts without
\* failure every bodypart of its message, multipart and message/rfc822
\* parts included, has a database id other than 0, and every part_numbers
\* row refers to a bodyparts row.
EveryBodypartHasId ==
    /\ \A i \in live :
           BodypartsInserted(inj[i]) =>
               \A k \in DOMAIN inj[i].bodyparts : inj[i].bodyparts[k].bid # 0
    /\ \A r \in db.partNumbers : \E b \in db.bodyparts : b.id = r[4]

\* C27: the same for the bodyparts that are stored, those whose type is
\* neither multipart/* (other than multipart/signed) nor message/rfc822;
\* the other bodyparts keep the id 0, and their part_numbers rows refer to
\* no bodyparts row.
StoredBodypartsHaveIds ==
    /\ \A ct \in ContentTypes :
           (StoreText(ct) \/ StoreData(ct)) <=>
               ct \notin {<<"multipart", "mixed">>, <<"message", "rfc822">>}
    /\ \A i \in live :
           BodypartsInserted(inj[i]) =>
               \A k \in DOMAIN inj[i].bodyparts :
                   inj[i].bodyparts[k].bid # 0 <=>
                       (StoreText(inj[i].bodyparts[k].ct)
                        \/ StoreData(inj[i].bodyparts[k].ct))
    /\ \A r \in db.partNumbers :
           \A i \in live :
               IF StoreText(inj[i].bodyparts[r[3]].ct)
                  \/ StoreData(inj[i].bodyparts[r[3]].ct)
               THEN \E b \in db.bodyparts :
                       b.id = r[4] /\ b.hash = inj[i].bodyparts[r[3]].hash
               ELSE r[4] = 0

\* A message of a stored part and a multipart part has been committed.
StoredBodypartsHaveIdsWitness ==
    \E i \in live :
        /\ inj[i].state = "Done"
        /\ inj[i].tx.committed
        /\ db.partNumbers # {}
        /\ \E k, l \in DOMAIN inj[i].bodyparts :
               /\ inj[i].bodyparts[k].bid # 0
               /\ inj[i].bodyparts[l].ct = <<"multipart", "mixed">>


\* The query at the head of the queue when runQueue() starts in submit( x ).
FirstQueued(x) == Head(Append(pool.queries, x))

\* A handle has taken that query in this step.
HeadTaken(x) ==
    \E h \in Backends :
        pool'.working[h] = FirstQueued(x) /\ pool.working[h] # FirstQueued(x)

NoneConnecting ==
    \A k \in DOMAIN pool.handles : pool.st[pool.handles[k]] # "Connecting"

PoolEmpties ==
    /\ \E h \in Backends : HandleClosed(h)
    /\ pool.handles # <<>>
    /\ pool'.handles = <<>>

\* C31, as stated: when the removal of the last handle empties the pool, a
\* disaster is logged if the server is reached over a Unix socket whose
\* path lies under File::root().
DisasterUnderRoot ==
    [][PoolEmpties => (pool.unix /\ pool.underRoot => pool'.disaster)]_vars

\* C31: when the removal of the last handle empties the pool, a disaster is
\* logged if and only if the server is reached over a Unix socket whose
\* path does not lie under File::root(), which is when runQueue() makes no
\* new handle; and a disaster is logged at no other time.
DisasterOutsideRoot ==
    /\ [][PoolEmpties => (pool'.disaster <=> pool.unix /\ ~pool.underRoot)]_vars
    /\ [][pool'.disaster # pool.disaster => PoolEmpties]_vars

\* The only handle of a server on a Unix socket outside File::root() has
\* gone: the disaster is logged.
DisasterOutsideRootWitness ==
    /\ ~pool.noHandles /\ pool.handles = <<>>
    /\ pool.backendNumber > 0
    /\ pool.unix /\ ~pool.underRoot
    /\ pool.disaster

InQueue(x) == \E k \in DOMAIN pool.queries : pool.queries[k] = x

\* C32: a query that has failed with "No available database handles." is
\* not in the queue of pending queries any more, no handle works on it
\* later, and every query has been notified of a terminal state at most
\* once.
FailedQueryLeavesQueue ==
    \A x \in Queries :
        /\ pool.q[x].errors > 0 =>
              /\ ~InQueue(x)
              /\ pool.q[x].state = "Failed"
              /\ \A h \in Backends : pool.working[h] # x
        /\ pool.q[x].notified <= 1

\* The injectors whose uncommitted bodyparts row injector i's insert waits
\* for at the unique index of bodyparts.hash.
BodypartWaits(i) ==
    IF HeadIs(i, {"intoBodyparts"}) THEN WaitsFor(i) ELSE {}

\* C33: no two injectors wait, each with an insert into bodyparts, for the
\* uncommitted row of the other.
NoBodypartDeadlock ==
    \A i, j \in live : ~(j \in BodypartWaits(i) /\ i \in BodypartWaits(j))

\* The line of this step is a MAIL FROM with argument arg, and its reply
\* is 250.
MailAccepted(arg) ==
    /\ LineMail(arg)
    /\ smtp'.sent # <<>>
    /\ smtp'.sent[1].code = 250

\* C34: when a MAIL FROM has been accepted with 250, the list of
\* recipients is empty and the sender is the address of this MAIL FROM, or
\* none if it was <>.
MailStartsAfresh ==
    [][\A arg \in MailArgs :
          MailAccepted(arg) =>
              /\ smtp'.state = "RcptTo"
              /\ smtp'.to = <<>>
              /\ smtp'.from = IF arg = "<>" THEN "none" ELSE arg]_vars

\* C35: the body handed to the Injector for a message is made of the lines
\* received between the 354 of that message and its final ".", and of
\* nothing else.
BodyOfOwnLines ==
    \A m \in Messages :
        smtp.msgs[m].status # "none" =>
            smtp.msgs[m].body = Unstuffing(smtp.msgs[m].lines)

\* C36: the answer to a lookup that arrives when no mail transaction takes
\* recipients, which is after RSET, while the body is read and while an
\* injection is under way, leaves the state and the list of recipients as
\* they are.
LateAnswerIgnored ==
    [][\A k \in 1..MaxLookups :
          (UserAnswer(k) /\ smtp.state \notin {"RcptTo", "Data"}) =>
              /\ smtp'.state = smtp.state
              /\ smtp'.to = smtp.to]_vars

\* The sessions of mailbox m that have UID uid in their recent set.
RecentTo(mb, ss, uid) == {s \in ss : uid \in mb.recent[s]}

\* C37: when an injector announces, the UID of every target mailbox whose
\* first_recent it has incremented is in the recent set of exactly one
\* session that is open on that mailbox.
RecentToOneSession ==
    [][\A i \in live :
          (inj'[i].announced /\ ~inj[i].announced) =>
              \A k \in DOMAIN inj[i].mailboxes :
                  LET u == inj[i].mailboxes[k]
                      m == u.mailbox
                  IN u.recentIn # 0 =>
                        Cardinality(RecentTo(mailbox'[m], sessions[m], u.uid)) = 1]_vars

\* The command at position k waits to be started and has no error.
Waiting(im, k) ==
    im.commands[k].state \in {"Unparsed", "Blocked"} /\ im.commands[k].ok

\* C38: the commands that a pass of runCommands() has moved to Executing
\* were started in the order of their arrival, none of them while a
\* command that arrived earlier was Unparsed or Blocked without an error;
\* and no such command precedes a command that is Executing.
StartedInArrivalOrder ==
    /\ \A a, b \in DOMAIN imap.startLog :
          a < b => imap.startLog[a].id < imap.startLog[b].id
    /\ \A s \in DOMAIN imap.startLog : \A k \in DOMAIN imap.commands :
          imap.commands[k].id < imap.startLog[s].id => ~Waiting(imap, k)
    /\ \A k, l \in DOMAIN imap.commands :
          (k < l /\ imap.commands[l].state = "Executing") => ~Waiting(imap, k)

\* Two commands have waited for the first command of the connection to be
\* retired, and one pass has started both, the older one first.
StartedInArrivalOrderWitness ==
    /\ Len(imap.startLog) = 2
    /\ imap.startLog[1].id = 2 /\ imap.startLog[2].id = 3
    /\ Len(imap.commands) = 2
    /\ imap.commands[1].id = 2 /\ imap.commands[1].state = "Executing"
    /\ imap.commands[2].id = 3 /\ imap.commands[2].state = "Executing"

\* The commands of the list that have been started and are not retired.
Started(im) ==
    {k \in DOMAIN im.commands : im.commands[k].state \in {"Executing", "Finished"}}

\* The first command that waits to be started, 0 if there is none.
FirstWaiting(im) ==
    LET ks == {k \in DOMAIN im.commands : Waiting(im, k)}
    IN IF ks = {} THEN 0 ELSE Min(ks)

\* C39: after runCommands() no valid command waits unless a command ahead
\* of it has been started and is not retired yet; the command that waits
\* first is not of the leading command's group; a command that is
\* Executing has been parsed; and runCommands() has made one further pass
\* for every pass in which unblockCommands() was called, and was never
\* called while it was running.
StartedWhenDrained ==
    /\ \A k \in DOMAIN imap.commands :
          (Waiting(imap, k) /\ imap.commands[k].valid) =>
              \E j \in Started(imap) : j < k
    /\ (FirstWaiting(imap) # 0 /\ Started(imap) # {}) =>
          LET g == imap.commands[Min(Started(imap))].group
          IN g = 0 \/ imap.commands[FirstWaiting(imap)].group # g
    /\ \A k \in DOMAIN imap.commands :
          imap.commands[k].state = "Executing" => imap.commands[k].parses > 0
    /\ imap.further = imap.owed
    /\ imap.nested = 0
    /\ ~imap.runningCommands /\ ~imap.runCommandsAgain

\* The result of a query has let the first command finish, which has
\* called unblockCommands(): the first pass has retired it and started
\* the two commands that waited, the further pass has retired these.
StartedWhenDrainedWitness ==
    /\ imap.further = 1 /\ imap.owed = 1
    /\ Len(imap.commands) = 3
    /\ imap.commands[1].unblocks /\ imap.commands[1].needsDb
    /\ \A k \in DOMAIN imap.commands : imap.commands[k].state = "Retired"
    /\ imap.commands[1].group # imap.commands[2].group
    /\ imap.commands[2].group = imap.commands[3].group

\* C40: Command::parse() has been called at most once for every command.
ParsedAtMostOnce ==
    \A k \in DOMAIN imap.commands : imap.commands[k].parses <= 1

====
